---- MODULE Spec2Model ----
\* create-relay-app: the source-transformation tasks and the task runner.
\*
\* A file's text is represented by its syntax: a text is a record
\* [valid, body] where body is the sequence of statements the text spells
\* out.  Nodes a task builds with the @babel/types builders carry
\* synth = TRUE until they are printed; nodes that come from a text carry
\* synth = FALSE.
EXTENDS Integers, Sequences, FiniteSets, TLC

VARIABLES
    task,         \* which task object this run executes
    settings,     \* ProjectSettings / ProjectContext.args of the run
    dir,          \* listing of the directory the target file is searched in
    text,         \* text of the target file on disk
    original,     \* text of the target file before the first run
    before,       \* text of the target file when the current run started
    ast,          \* the in-memory syntax tree of the current run
    cursor,       \* position of the traversal in the tree
    wrapped,      \* providerWrapped (AddRelayEnvironmentProviderTask)
    skipMsg,      \* TaskBase.skip() was called in this run
    pc,           \* position of the run
    outcome,      \* "none" while running, then "ok" or an error
    prevOutcome,  \* outcome of the previous run on the same file
    writes,       \* number of writeFile calls of the current run
    runNo,        \* how many times the task has been started
    envCopied,    \* AddRelayEnvironmentTask copied the environment asset
    io,           \* the file-system calls the current run has issued
    pending,      \* writes issued whose promise has not settled yet
    message,      \* TaskBase.message, the label of the task
    disk,         \* the artifact directory and the Relay environment file
    enabled,      \* TaskRunner: isEnabled() of each task of the list
    status,       \* TaskRunner: the state of each task of the list
    position,     \* TaskRunner: the task the loop is at
    started,      \* TaskRunner: how often each task entered Running
    written,      \* TaskRunner: the tasks whose files are on disk
    runResult,    \* TaskRunner: the result of run()
    parsedArgs,   \* ArgumentHandler: the values given on the command line
    allArgs,      \* ArgumentHandler.promptForMissing: allArgs
    argIndex,     \* ArgumentHandler: the definition the loop is at
    hpc,          \* ArgumentHandler: position of promptForMissing
    prompted,     \* ArgumentHandler: how often each argument was prompted
    basis,        \* ArgumentHandler: the values each default was computed from
    thrown,       \* ArgumentHandler: the argument whose error was thrown
    targetFs,     \* the files and directories the definitions validate against
    fsys,         \* the directories from the filesystem root downwards
    cwd,          \* the working directory relative paths are resolved in
    startDirectory,  \* traverseUpToFindFile: directory, where it starts
    currentDirectory,   \* traverseUpToFindFile: currentDirectory
    previousDirectory,  \* traverseUpToFindFile: previousDirectory
    fpc,          \* traverseUpToFindFile: position of the call
    filepath,     \* traverseUpToFindFile: what it returned
    looked        \* the directories findFileInDirectory was called on

ioVars == <<io, pending, message, disk>>

taskVars == <<task, settings, dir, text, original, before, ast, cursor, wrapped,
              skipMsg, pc, outcome, prevOutcome, writes, runNo, envCopied,
              ioVars>>

runnerVars == <<enabled, status, position, started, written, runResult>>

handlerVars == <<parsedArgs, allArgs, argIndex, hpc, prompted, basis, thrown,
                 targetFs>>

finderVars == <<fsys, cwd, startDirectory, currentDirectory, previousDirectory,
                fpc, filepath, looked>>

startupVars == <<handlerVars, finderVars>>

vars == <<taskVars, runnerVars, startupVars>>

\* ---------------------------------------------------------------- bounds
MaxRuns == 2
MaxMoreAssignments == 1
MaxJsx == 2
NumTasks == 3
MaxDepth == 2
MaxUp == 4

\* ------------------------------------------------------------- constants
NEXTJS_CONFIG_FILE == "next.config.js"
VITE_CONFIG_FILE_NO_EXT == "vite.config"
relayImportName == "relay"
VITE_RELAY_MODULE == "vite-plugin-relay"
RELAY_ENV_PROVIDER == "RelayEnvironmentProvider"
RELAY_ENV == "RelayEnvironment"
REACT_RELAY_PACKAGE == "react-relay"

\* --------------------------------------------------------------- helpers
SeqOf(S, n) == UNION {[1..k -> S] : k \in 0..n}

FirstIndex(s, P(_)) ==
    IF \E i \in 1..Len(s) : P(s[i])
    THEN CHOOSE i \in 1..Len(s) : P(s[i]) /\ \A j \in 1..(i - 1) : ~P(s[j])
    ELSE 0

ReplaceAt(s, i, v) == [s EXCEPT ![i] = v]

RemoveAt(s, i) == SubSeq(s, 1, i - 1) \o SubSeq(s, i + 1, Len(s))

Count(s, P(_)) == Cardinality({i \in 1..Len(s) : P(s[i])})

\* ------------------------------------------------------------ filesystem
\* helpers.findFileInDirectory: the joined path when readdir lists the
\* exact name, null (here "") when it does not or when readdir throws.
findFileInDirectory(directory, filename) ==
    IF directory.readable /\ filename \in directory.names
    THEN filename
    ELSE ""

\* ------------------------------------------------------------------- ast
NoText == [valid |-> FALSE, body |-> <<>>]

\* ast.parseAst: fails on a text that is not valid syntax.
parseAst(code) == [ok |-> code.valid, tree |-> code.body]

PrintElem(e) == [e EXCEPT !.synth = FALSE]

PrintProp(p) ==
    [p EXCEPT !.synth = FALSE,
              !.val = [@ EXCEPT !.elems =
                          [i \in 1..Len(@) |-> PrintElem(@[i])]]]

PrintObj(o) ==
    [o EXCEPT !.props = [i \in 1..Len(@) |-> PrintProp(@[i])]]

PrintStmt(s) ==
    [s EXCEPT !.synth = FALSE,
              !.e = [@ EXCEPT
                       !.props = [i \in 1..Len(@) |-> PrintProp(@[i])],
                       !.args = [i \in 1..Len(@) |-> PrintObj(@[i])]]]

\* ast.printAst: the text of the tree; what the builders created is
\* spelled out, everything else is reproduced as it was.
printAst(tree, originalCode) ==
    [valid |-> TRUE, body |-> [i \in 1..Len(tree) |-> PrintStmt(tree[i])]]

\* ----------------------------------------------------------- node shapes
\* Statement: import declaration, export default declaration, variable
\* declaration (one declarator), function declaration, or an expression
\* statement holding an assignment expression.
Stmt(k, kind, name, src, op, left, e) ==
    [k |-> k, kind |-> kind, name |-> name, src |-> src, op |-> op,
     left |-> left, e |-> e, synth |-> FALSE]

Expr(t, name, calleeId, args, props) ==
    [t |-> t, name |-> name, calleeId |-> calleeId, args |-> args,
     props |-> props]

NoExpr == Expr("none", "", FALSE, <<>>, <<>>)

\* Import declaration with one specifier: `import local from src`
\* (kind = "default") or `import { imported as local } from src`.
Import(kind, imported, local, src) ==
    [k |-> "import", kind |-> kind, imported |-> imported, name |-> local,
     src |-> src, e |-> NoExpr, synth |-> FALSE]

Obj(props) == [t |-> "obj", props |-> props]
NotObj == [t |-> "fn", props |-> <<>>]

\* Object property `key: val`; idKey is t.isIdentifier(p.key).
Prop(key, idKey, val) ==
    [key |-> key, idKey |-> idKey, val |-> val, synth |-> FALSE]

\* The value of a property: an array literal or an object literal with
\* its elements / properties in elems, or something else.
Val(t, elems) == [t |-> t, elems |-> elems]

\* Array element (t = "id": identifier, "call": call expression) or the
\* property of a nested object (t = "prop": identifier key, "strprop":
\* string-literal key); val is the property's value.
Elem(t, name, val) == [t |-> t, name |-> name, val |-> val, synth |-> FALSE]

Synth(n) == [n EXCEPT !.synth = TRUE]

\* -------------------------------------- AddRelayPluginConfigurationTask
\* configureVite, Program visitor: some import declaration of the body
\* has a default specifier whose local name is "relay".
hasRelayImport_Never(body) == FALSE

hasRelayImport(body) ==
    \E i \in 1..Len(body) :
        /\ body[i].k = "import"
        /\ body[i].kind = "default"
        /\ body[i].name = relayImportName

ViteProgramVisitor(body) ==
    IF hasRelayImport(body)
    THEN body
    ELSE <<Synth(Import("default", "default", relayImportName,
                        VITE_RELAY_MODULE))>> \o body

IsPluginsProperty(p) == p.idKey /\ p.key = "plugins"

IsRelayIdentifier(el) == el.t = "id" /\ el.name = relayImportName

hasRelayPlugin_Never(vitePlugins) == FALSE

hasRelayPlugin(vitePlugins) ==
    \E i \in 1..Len(vitePlugins) : IsRelayIdentifier(vitePlugins[i])

\* `export default defineConfig(<object literal>, ...)`
IsDefineConfigCall(decl) ==
    /\ decl.t = "call"
    /\ Len(decl.args) >= 1
    /\ decl.calleeId
    /\ decl.name = "defineConfig"

\* configureVite, ExportDefaultDeclaration visitor, on the declaration of
\* the export: [threw, e] with e the declaration as the visitor leaves it.
ViteExportDefaultVisitor(decl) ==
    IF ~IsDefineConfigCall(decl)
    THEN [threw |-> "expected defineConfig", e |-> decl]
    ELSE
    LET arg == decl.args[1] IN
    IF arg.t # "obj"
    THEN [threw |-> "expected defineConfig", e |-> decl]
    ELSE
    LET found == FirstIndex(arg.props, IsPluginsProperty)
        props1 == IF found = 0
                  THEN Append(arg.props,
                              Synth(Prop("plugins", TRUE, Val("arr", <<>>))))
                  ELSE arg.props
        at == IF found = 0 THEN Len(props1) ELSE found
        pluginsProperty == props1[at]
        decl1 == [decl EXCEPT !.args[1].props = props1]
    IN
    IF pluginsProperty.val.t # "arr"
    THEN [threw |-> "plugins is no array", e |-> decl1]
    ELSE
    IF hasRelayPlugin(pluginsProperty.val.elems)
    THEN [threw |-> "", e |-> decl1]
    ELSE [threw |-> "",
          e |-> [decl1 EXCEPT !.args[1].props[at].val.elems =
                     Append(@, Synth(Elem("id", relayImportName, <<>>)))]]

\* ----------------------------------------------------------- task steps
Fail(error) ==
    /\ pc' = "done"
    /\ outcome' = error

Goto(label) ==
    /\ pc' = label
    /\ UNCHANGED outcome

\* A call of the file system that is over when it returns.
Call(name) == io' = Append(io, name)

\* `await <write>`: the write is issued and the function is suspended
\* until its promise settles; it goes on at label resume, "return" being
\* the end of run().
AwaitWrite(name, target, content, resume) ==
    /\ io' = Append(io, name)
    /\ pending' = Append(pending, [op |-> name, target |-> target,
                                   text |-> content, resume |-> resume])
    /\ pc' = "await"
    /\ UNCHANGED outcome

Plugin_run_DetectFromFile ==
    /\ task = "plugin"
    /\ pc = "run"
    /\ CASE settings.toolchain = "vite" -> Goto("vite_find")
         [] settings.toolchain = "next" -> Goto("next_find")
         [] OTHER -> IF \E i \in 1..Len(text.body) : text.body[i].k = "export"
                     THEN Goto("vite_find")
                     ELSE Fail("Unsupported toolchain")
    /\ UNCHANGED <<runnerVars, startupVars, ioVars>>
    /\ UNCHANGED <<task, settings, dir, text, original, before, ast, cursor, wrapped,
                   skipMsg, prevOutcome, writes, runNo, envCopied>>

\* AddRelayPluginConfigurationTask.run: the switch on settings.toolchain.
Plugin_run ==
    /\ task = "plugin"
    /\ pc = "run"
    /\ CASE settings.toolchain = "vite" -> Goto("vite_find")
         [] settings.toolchain = "next" -> Goto("next_find")
         [] OTHER -> Fail("Unsupported toolchain")
    /\ UNCHANGED <<runnerVars, startupVars, ioVars>>
    /\ UNCHANGED <<task, settings, dir, text, original, before, ast, cursor, wrapped,
                   skipMsg, prevOutcome, writes, runNo, envCopied>>

ViteConfigFilename ==
    IF settings.useTypescript
    THEN "vite.config.ts"
    ELSE "vite.config.js"

\* configureVite up to the first await: the config file is looked up.
configureVite_find ==
    /\ pc = "vite_find"
    /\ IF findFileInDirectory(dir, ViteConfigFilename) = ""
       THEN Fail("not found")
       ELSE Goto("vite_read")
    /\ Call("readdir")
    /\ UNCHANGED <<runnerVars, startupVars, pending, message, disk>>
    /\ UNCHANGED <<task, settings, dir, text, original, before, ast, cursor, wrapped,
                   skipMsg, prevOutcome, writes, runNo, envCopied>>

ExportDefaultIndex(body) ==
    LET IsExport(st) == st.k = "export" IN FirstIndex(body, IsExport)

\* configureVite: readFile, parseAst, and the traversal entering Program.
configureVite_Program ==
    /\ pc = "vite_read"
    /\ LET parsed == parseAst(text) IN
       IF ~parsed.ok
       THEN Fail("parse error") /\ UNCHANGED <<ast, cursor>>
       ELSE LET body == ViteProgramVisitor(parsed.tree) IN
            /\ ast' = body
            /\ cursor' = ExportDefaultIndex(body)
            /\ Goto(IF ExportDefaultIndex(body) = 0
                    THEN "vite_write"
                    ELSE "vite_export")
    /\ Call("readFile")
    /\ UNCHANGED <<runnerVars, startupVars, pending, message, disk>>
    /\ UNCHANGED <<task, settings, dir, text, original, before, wrapped, skipMsg,
                   prevOutcome, writes, runNo, envCopied>>

configureVite_ExportDefault_WriteInside ==
    /\ pc = "vite_export"
    /\ LET r == ViteExportDefaultVisitor(ast[cursor].e) IN
       /\ ast' = [ast EXCEPT ![cursor].e = r.e]
       /\ text' = printAst([ast EXCEPT ![cursor].e = r.e], text)
       /\ writes' = writes + 1
       /\ IF r.threw # ""
          THEN Fail(r.threw)
          ELSE Goto("vite_write")
    /\ UNCHANGED <<runnerVars, startupVars, ioVars>>
    /\ UNCHANGED <<task, settings, dir, original, before, cursor, wrapped,
                   skipMsg, prevOutcome, runNo, envCopied>>

\* configureVite: the traversal reaches the ExportDefaultDeclaration.
configureVite_ExportDefault ==
    /\ pc = "vite_export"
    /\ LET r == ViteExportDefaultVisitor(ast[cursor].e) IN
       /\ ast' = [ast EXCEPT ![cursor].e = r.e]
       /\ IF r.threw # ""
          THEN Fail(r.threw)
          ELSE Goto("vite_write")
    /\ UNCHANGED <<runnerVars, startupVars, ioVars>>
    /\ UNCHANGED <<task, settings, dir, text, original, before, cursor, wrapped,
                   skipMsg, prevOutcome, writes, runNo, envCopied>>

\* configureVite: printAst and fs.writeFile after the traversal returned.
configureVite_write ==
    /\ pc = "vite_write"
    /\ AwaitWrite("writeFile", "file", printAst(ast, text), "return")
    /\ UNCHANGED <<runnerVars, startupVars, message, disk>>
    /\ UNCHANGED <<task, settings, dir, text, writes, original, before, ast, cursor, wrapped,
                   skipMsg, prevOutcome, runNo, envCopied>>

\* The promise of a write settles: the write has reached the disk and
\* the function awaiting it goes on.
Promise_settles ==
    /\ \E i \in 1..Len(pending) :
          LET w == pending[i] IN
          /\ pending' = RemoveAt(pending, i)
          /\ text' = IF w.target = "file" THEN w.text ELSE text
          /\ writes' = IF w.target = "file" THEN writes + 1 ELSE writes
          /\ envCopied' = (envCopied \/ w.target = "asset")
          /\ disk' = IF w.target = "relayEnvFile"
                     THEN [disk EXCEPT !.relayEnvFile =
                              [exists |-> TRUE, code |-> w.text]]
                     ELSE disk
          /\ IF pc # "await" \/ w.resume = ""
             THEN UNCHANGED <<pc, outcome>>
             ELSE IF w.resume = "return"
             THEN pc' = "done" /\ outcome' = "ok"
             ELSE Goto(w.resume)
    /\ UNCHANGED <<runnerVars, startupVars>>
    /\ UNCHANGED <<task, settings, dir, original, before, ast, cursor, wrapped,
                   skipMsg, prevOutcome, runNo, io, message>>

\* The label a task object is constructed with.
InitialMessage(t) ==
    CASE t = "provider" -> "Add RelayEnvironmentProvider"
      [] t = "artifact" -> "Generate artifact directory"
      [] t = "genenv" -> "Generate Relay environment"
      [] OTHER -> ""

\* The tool is started again on the project as the last run left it.
StartRun ==
    /\ pc = "done"
    /\ runNo < MaxRuns
    /\ runNo' = runNo + 1
    /\ pc' = IF task \in {"artifact", "genenv"} THEN "pending" ELSE "run"
    /\ io' = <<>>
    /\ message' = InitialMessage(task)
    /\ UNCHANGED <<pending, disk>>
    /\ before' = text
    /\ prevOutcome' = outcome
    /\ outcome' = "none"
    /\ writes' = 0
    /\ ast' = <<>>
    /\ cursor' = 0
    /\ wrapped' = FALSE
    /\ skipMsg' = ""
    /\ UNCHANGED <<runnerVars, startupVars>>
    /\ UNCHANGED <<task, settings, dir, text, original, envCopied>>

\* ------------------------------------------------- vite config files
react == Elem("call", "react", <<>>)
relayId == Elem("id", relayImportName, <<>>)
relayCall == Elem("call", relayImportName, <<>>)

VitePluginVals ==
    {Val("arr", e) : e \in {<<>>, <<react>>, <<relayId>>, <<react, relayId>>,
                            <<relayCall>>}}
        \cup {Val("call", <<>>)}

server == Prop("server", TRUE, Val("obj", <<>>))

ViteArgProps ==
    {<<>>, <<server>>, <<Prop("plugins", FALSE, Val("arr", <<>>))>>}
        \cup {<<Prop("plugins", TRUE, v)>> : v \in VitePluginVals}
        \cup {<<server, Prop("plugins", TRUE, v)>> : v \in VitePluginVals}

ViteDecls ==
    {Expr("call", "defineConfig", TRUE, <<Obj(p)>>, <<>>) : p \in ViteArgProps}
        \cup {Expr("call", "defineConfig", TRUE, <<>>, <<>>),
              Expr("call", "defineConfig", TRUE, <<NotObj>>, <<>>),
              Expr("call", "mergeConfig", TRUE, <<Obj(<<>>)>>, <<>>),
              Expr("call", "defineConfig", FALSE, <<Obj(<<>>)>>, <<>>),
              Expr("obj", "", FALSE, <<>>,
                   <<Prop("plugins", TRUE, Val("arr", <<>>))>>),
              Expr("obj", "", FALSE, <<>>,
                   <<Prop("plugins", TRUE, Val("arr", <<relayId>>))>>),
              Expr("id", "config", FALSE, <<>>, <<>>)}


ViteImports ==
    {<<>>,
     <<Import("default", "default", "relay", VITE_RELAY_MODULE)>>,
     <<Import("default", "default", "relayPlugin", VITE_RELAY_MODULE)>>,
     <<Import("named", "relay", "relay", "my-plugins")>>,
     <<Import("default", "default", "relay", "my-plugins")>>,
     <<Import("named", "defineConfig", "defineConfig", "vite"),
       Import("default", "default", "relay", VITE_RELAY_MODULE)>>}

ViteBodies ==
    {i \o <<Stmt("export", "", "", "", "", "", d)>> :
         i \in ViteImports, d \in ViteDecls}
        \cup ViteImports

ViteTexts == {[valid |-> TRUE, body |-> b] : b \in ViteBodies} \cup {NoText}

\* ------------------------------------------------------- configureNext
\* helpers.getRelayCompilerLanguage
getRelayCompilerLanguage(useTypescript) ==
    IF useTypescript THEN "typescript" ELSE "javascript"

\* `module.exports = ...`
IsModuleExportsAssignment(node) ==
    /\ node.op = "="
    /\ node.left = "module.exports"

\* path.scope.getBinding(name): the statement that declares name, 0 if
\* the name is unbound.
getBinding(body, name) ==
    LET Declares(st) == st.k \in {"var", "func"} /\ st.name = name
    IN FirstIndex(body, Declares)

\* The object expression assigned to module.exports by the assignment of
\* statement i: the index of the statement that holds it (i itself, or
\* the variable declaration the right-hand identifier is bound to), 0
\* when the visitor throws instead.
ResolveExportedObject_Chase(body, i) ==
    LET right == body[i].e
        hop(n) == IF n # 0 /\ body[n].k = "var" /\ body[n].e.t = "id"
                  THEN getBinding(body, body[n].e.name)
                  ELSE n
    IN IF right.t = "id"
       THEN LET b == hop(getBinding(body, right.name)) IN
            IF b = 0 \/ body[b].k # "var" \/ body[b].e.t # "obj"
            THEN 0
            ELSE b
       ELSE IF right.t = "obj" THEN i ELSE 0

ResolveExportedObject(body, i) ==
    LET right == body[i].e IN
    IF right.t = "id"
    THEN LET binding == getBinding(body, right.name) IN
         IF binding = 0 \/ body[binding].k # "var"
                \/ body[binding].e.t # "obj"
         THEN 0
         ELSE binding
    ELSE IF right.t = "obj" THEN i ELSE 0

IsCompilerProperty(p) == p.idKey /\ p.key = "compiler"

IsRelayProperty(el) == el.t = "prop" /\ el.name = "relay"

hasRelayProperty_Never(properties) == FALSE

hasRelayProperty(properties) ==
    \E i \in 1..Len(properties) : IsRelayProperty(properties[i])

\* The properties of the object the new `relay` property is given.
RelayObjProperties(st) ==
    << <<"src", st.srcDirectoryPath>>,
       <<"language", getRelayCompilerLanguage(st.useTypescript)>> >>
        \o (IF st.artifactDirectoryPath # ""
            THEN << <<"artifactDirectory", st.artifactDirectoryPath>> >>
            ELSE <<>>)

\* configureNext, AssignmentExpression visitor on the assignment of
\* statement i: [threw, body] with body the tree as the visitor leaves it.
NextAssignmentVisitor(body, i, st) ==
    IF ~IsModuleExportsAssignment(body[i])
    THEN [threw |-> "expected module.exports", body |-> body]
    ELSE
    LET at == ResolveExportedObject(body, i) IN
    IF at = 0
    THEN [threw |-> IF body[i].e.t = "id"
                    THEN "variable is no object"
                    ELSE "expected module.exports",
          body |-> body]
    ELSE
    LET objProps == body[at].e.props
        found == FirstIndex(objProps, IsCompilerProperty)
        props1 == IF found = 0
                  THEN Append(objProps,
                              Synth(Prop("compiler", TRUE, Val("obj", <<>>))))
                  ELSE objProps
        c == IF found = 0 THEN Len(props1) ELSE found
        body1 == [body EXCEPT ![at].e.props = props1]
    IN
    IF props1[c].val.t # "obj"
    THEN [threw |-> "compiler is no object", body |-> body1]
    ELSE
    IF hasRelayProperty(props1[c].val.elems)
    THEN [threw |-> "", body |-> body1]
    ELSE [threw |-> "",
          body |-> [body1 EXCEPT ![at].e.props[c].val.elems =
                       Append(@, Synth(Elem("prop", "relay",
                                            RelayObjProperties(st))))]]

\* The first assignment expression after statement i, 0 if there is none.
AssignmentAfter(body, i) ==
    IF \E j \in (i + 1)..Len(body) : body[j].k = "assign"
    THEN CHOOSE j \in (i + 1)..Len(body) :
             /\ body[j].k = "assign"
             /\ \A n \in (i + 1)..(j - 1) : body[n].k # "assign"
    ELSE 0

\* configureNext up to the first await: the config file is looked up.
configureNext_find ==
    /\ pc = "next_find"
    /\ IF findFileInDirectory(dir, NEXTJS_CONFIG_FILE) = ""
       THEN Fail("not found")
       ELSE Goto("next_read")
    /\ Call("readdir")
    /\ UNCHANGED <<runnerVars, startupVars, pending, message, disk>>
    /\ UNCHANGED <<task, settings, dir, text, original, before, ast, cursor, wrapped,
                   skipMsg, prevOutcome, writes, runNo, envCopied>>

\* configureNext: readFile, parseAst, and the traversal starting.
configureNext_parse ==
    /\ pc = "next_read"
    /\ LET parsed == parseAst(text) IN
       IF ~parsed.ok
       THEN Fail("parse error") /\ UNCHANGED <<ast, cursor>>
       ELSE /\ ast' = parsed.tree
            /\ cursor' = AssignmentAfter(parsed.tree, 0)
            /\ Goto(IF AssignmentAfter(parsed.tree, 0) = 0
                    THEN "next_write"
                    ELSE "next_assign")
    /\ Call("readFile")
    /\ UNCHANGED <<runnerVars, startupVars, pending, message, disk>>
    /\ UNCHANGED <<task, settings, dir, text, original, before, wrapped, skipMsg,
                   prevOutcome, writes, runNo, envCopied>>

\* configureNext: the traversal reaches the next AssignmentExpression.
configureNext_Assignment ==
    /\ pc = "next_assign"
    /\ LET r == NextAssignmentVisitor(ast, cursor, settings) IN
       /\ ast' = r.body
       /\ IF r.threw # ""
          THEN Fail(r.threw) /\ UNCHANGED cursor
          ELSE /\ cursor' = AssignmentAfter(r.body, cursor)
               /\ Goto(IF AssignmentAfter(r.body, cursor) = 0
                       THEN "next_write"
                       ELSE "next_assign")
    /\ UNCHANGED <<runnerVars, startupVars, ioVars>>
    /\ UNCHANGED <<task, settings, dir, text, original, before, wrapped, skipMsg,
                   prevOutcome, writes, runNo, envCopied>>

\* configureNext: printAst and fs.writeFile after the traversal returned.
configureNext_write ==
    /\ pc = "next_write"
    /\ AwaitWrite("writeFile", "file", printAst(ast, text), "return")
    /\ UNCHANGED <<runnerVars, startupVars, message, disk>>
    /\ UNCHANGED <<task, settings, dir, text, writes, original, before, ast, cursor, wrapped,
                   skipMsg, prevOutcome, runNo, envCopied>>

\* ------------------------------------------------- next.config.js files
styledComponents == Elem("prop", "styledComponents", <<>>)
relayUser == Elem("prop", "relay", << <<"src", "./app">> >>)
relayString == Elem("strprop", "relay", <<>>)

reactStrictMode == Prop("reactStrictMode", TRUE, Val("bool", <<>>))

Compiler(elems) == Prop("compiler", TRUE, Val("obj", elems))

NextObjProps ==
    {<<>>,
     <<reactStrictMode>>,
     <<Compiler(<<>>)>>,
     <<Compiler(<<styledComponents>>)>>,
     <<Compiler(<<relayUser>>)>>,
     <<Compiler(<<styledComponents, relayUser>>)>>,
     <<Compiler(<<relayString>>)>>,
     <<reactStrictMode, Compiler(<<styledComponents>>)>>,
     <<Prop("compiler", TRUE, Val("bool", <<>>))>>,
     <<Prop("compiler", FALSE, Val("obj", <<>>))>>}

ObjExpr(props) == Expr("obj", "", FALSE, <<>>, props)
IdExpr(name) == Expr("id", name, FALSE, <<>>, <<>>)
CallExpr(name) == Expr("call", name, TRUE, <<>>, <<>>)

Var(name, init) == Stmt("var", "const", name, "", "", "", init)
Func(name) == Stmt("func", "", name, "", "", "", NoExpr)
Assign(left, op, right) == Stmt("assign", "", "", "", op, left, right)

NextDeclarations ==
    {<<>>,
     <<Var("nextConfig", CallExpr("withRelay"))>>,
     <<Func("nextConfig")>>,
     <<Var("base", ObjExpr(<<>>)), Var("nextConfig", IdExpr("base"))>>}
        \cup {<<Var("nextConfig", ObjExpr(p))>> :
                  p \in {<<>>, <<reactStrictMode>>,
                         <<Compiler(<<styledComponents>>)>>,
                         <<Compiler(<<relayUser>>)>>,
                         <<Prop("compiler", TRUE, Val("bool", <<>>))>>}}

NextAssignments ==
    {Assign("module.exports", "=", ObjExpr(p)) : p \in NextObjProps}
        \cup {Assign("module.exports", "=", IdExpr("nextConfig")),
              Assign("module.exports", "=", CallExpr("withRelay")),
              Assign("exports.config", "=", ObjExpr(<<>>)),
              Assign("module.exports", "+=", ObjExpr(<<>>))}

MoreAssignments ==
    {Assign("module.exports", "=", ObjExpr(<<>>)),
     Assign("module.exports", "=", IdExpr("nextConfig")),
     Assign("cache", "=", ObjExpr(<<>>))}

NextBodies ==
    {d \o <<a>> \o m :
         d \in NextDeclarations, a \in NextAssignments,
         m \in SeqOf(MoreAssignments, MaxMoreAssignments)}
        \cup NextDeclarations

NextTexts == {[valid |-> TRUE, body |-> b] : b \in NextBodies} \cup {NoText}

\* ---------------------------------------------------------- directories
ConfigFiles == {"vite.config.js", "vite.config.ts", NEXTJS_CONFIG_FILE}

Directories ==
    {[readable |-> TRUE, names |-> ConfigFiles],
     [readable |-> TRUE, names |-> {"vite.config.ts"}],
     [readable |-> TRUE, names |-> {}],
     [readable |-> FALSE, names |-> ConfigFiles]}

FullDirectory == [readable |-> TRUE, names |-> ConfigFiles]

Settings(toolchain, ts, artifact) ==
    [toolchain |-> toolchain, useTypescript |-> ts,
     srcDirectoryPath |-> "./src", artifactDirectoryPath |-> artifact]

\* The projects AddRelayPluginConfigurationTask is started on.
PluginProjects ==
    {[settings |-> Settings("vite", FALSE, ""), dir |-> FullDirectory,
      text |-> x] : x \in ViteTexts}
        \cup {[settings |-> Settings("next", ts, IF ts THEN "./__generated__" ELSE ""),
               dir |-> FullDirectory, text |-> x] :
                  ts \in BOOLEAN, x \in NextTexts}
        \cup {[settings |-> Settings(tc, ts, ""), dir |-> d,
               text |-> [valid |-> TRUE, body |-> <<>>]] :
                  tc \in {"vite", "next", "cra"}, ts \in BOOLEAN,
                  d \in Directories}

\* Projects whose config file has the shape of another toolchain's.
MismatchedProjects ==
    {[settings |-> Settings(tc, FALSE, ""), dir |-> FullDirectory,
      text |-> [valid |-> TRUE, body |-> b]] :
         tc \in {"vite", "next", "cra"},
         b \in {<<Stmt("export", "", "", "", "", "",
                       Expr("call", "defineConfig", TRUE, <<Obj(<<>>)>>,
                            <<>>))>>,
                <<Assign("module.exports", "=", ObjExpr(<<>>))>>}}

NoFile == [exists |-> FALSE, code |-> NoText]

NoDisk == [artifactDirectory |-> FALSE, parentDirectory |-> FALSE,
           relayEnvFile |-> NoFile]

InitRun ==
    /\ original = text
    /\ before = text
    /\ ast = <<>>
    /\ cursor = 0
    /\ wrapped = FALSE
    /\ skipMsg = ""
    /\ pc = "run"
    /\ outcome = "none"
    /\ prevOutcome = "none"
    /\ writes = 0
    /\ runNo = 1
    /\ envCopied = FALSE
    /\ io = <<>>
    /\ pending = <<>>
    /\ message = InitialMessage(task)

InitPlugin ==
    /\ disk = NoDisk
    /\ task = "plugin"
    /\ \E p \in PluginProjects \cup MismatchedProjects :
           /\ settings = p.settings
           /\ dir = p.dir
           /\ text = p.text
    /\ InitRun

NextPlugin ==
    \/ Plugin_run
    \/ configureVite_find
    \/ configureVite_Program
    \/ configureVite_ExportDefault
    \/ configureVite_write
    \/ configureNext_find
    \/ configureNext_parse
    \/ configureNext_Assignment
    \/ configureNext_write
    \/ Promise_settles
    \/ StartRun

\* ------------------------------------------------------------ JSX files
\* A JSX element of the main file.  The elements of a file follow its
\* import declarations in document order; depth is the number of JSX
\* elements enclosing the element, kind says what the element's parent
\* node is: "return" (a return statement), "render" (a call whose callee
\* is a member expression with property `render`), "call" (any other
\* call), "jsx" (a JSX element) or "other".
Jsx(kind, tag, attrs, depth) ==
    [k |-> "jsx", kind |-> kind, name |-> tag, attrs |-> attrs,
     depth |-> depth, e |-> NoExpr, synth |-> FALSE]

InSubtree(body, i, n) ==
    /\ n > i
    /\ \A m \in (i + 1)..n : body[m].k = "jsx" /\ body[m].depth > body[i].depth

\* The last element of the subtree of element i.
SubtreeEnd(body, i) ==
    CHOOSE j \in i..Len(body) :
        /\ j = i \/ InSubtree(body, i, j)
        /\ j = Len(body) \/ ~InSubtree(body, i, j + 1)

\* utils.insertNamedImport: the local name under which importName of
\* packageName is imported, after inserting the import at the start of
\* the file when no import declaration has it.
insertNamedImport(body, importName, packageName) ==
    LET Has(st) == /\ st.k = "import"
                   /\ st.kind = "named"
                   /\ st.imported = importName
                   /\ st.src = packageName
        found == FirstIndex(body, Has)
    IN IF found # 0
       THEN [body |-> body, id |-> body[found].name, added |-> 0]
       ELSE [body |-> <<Synth(Import("named", importName, importName,
                                     packageName))>> \o body,
             id |-> importName, added |-> 1]

\* jsxPath.replaceWith(<provider environment={envId}>{node}</provider>)
ReplaceWithProvider(body, i, envProviderId, envId) ==
    LET last == SubtreeEnd(body, i)
        provider == Synth(Jsx(body[i].kind, envProviderId,
                              << <<"environment", envId>> >>, body[i].depth))
    IN [n \in 1..(Len(body) + 1) |->
          IF n < i THEN body[n]
          ELSE IF n = i THEN provider
          ELSE IF n = i + 1
               THEN [body[i] EXCEPT !.kind = "jsx", !.depth = @ + 1]
          ELSE IF n <= last + 1
               THEN [body[n - 1] EXCEPT !.depth = @ + 1]
          ELSE body[n - 1]]

WrapUnlessWrapped_Always(body, i, envProviderId, envId, alreadyWrapped) ==
    ReplaceWithProvider(body, i, envProviderId, envId)

\* The tree after the already-wrapped check of wrapJsxInProvider.
WrapUnlessWrapped(body, i, envProviderId, envId, alreadyWrapped) ==
    IF alreadyWrapped
    THEN body
    ELSE ReplaceWithProvider(body, i, envProviderId, envId)

wrapJsxInProvider_FixedNames(body, i, relativeImportPath) ==
    LET env == insertNamedImport(body, RELAY_ENV, relativeImportPath)
        prov == insertNamedImport(env.body, RELAY_ENV_PROVIDER,
                                  REACT_RELAY_PACKAGE)
        at == i + env.added + prov.added
        alreadyWrapped == prov.body[at].name = RELAY_ENV_PROVIDER
    IN [body |-> WrapUnlessWrapped(prov.body, at, RELAY_ENV_PROVIDER,
                                   RELAY_ENV, alreadyWrapped),
        at |-> at,
        skipped |-> alreadyWrapped,
        envId |-> RELAY_ENV,
        envProviderId |-> RELAY_ENV_PROVIDER]

\* AddRelayEnvironmentProviderTask.wrapJsxInProvider on element i, with
\* the module the environment is imported from: the tree it leaves, the
\* position of the element that is now at the anchor's place, and whether
\* it reported the JSX as already wrapped.
wrapJsxInProvider(body, i, relativeImportPath) ==
    LET env == insertNamedImport(body, RELAY_ENV, relativeImportPath)
        prov == insertNamedImport(env.body, RELAY_ENV_PROVIDER,
                                  REACT_RELAY_PACKAGE)
        at == i + env.added + prov.added
        alreadyWrapped == prov.body[at].name = prov.id
    IN [body |-> WrapUnlessWrapped(prov.body, at, prov.id, env.id,
                                   alreadyWrapped),
        at |-> at,
        skipped |-> alreadyWrapped,
        envId |-> env.id,
        envProviderId |-> prov.id]

\* The next JSX element the traversal enters after element i, whose
\* subtree is left out when the visitor called path.skip(); 0 at the end.
JsxAfter(body, i, skip) ==
    LET n == IF skip THEN SubtreeEnd(body, i) + 1 ELSE i + 1 IN
    IF n <= Len(body) THEN n ELSE 0

FirstJsx(body) ==
    LET IsJsx(st) == st.k = "jsx" IN FirstIndex(body, IsJsx)

\* ------------------------------------- AddRelayEnvironmentProviderTask
\* The name of the main file of a project.
MainFilename(st) ==
    (CASE st.toolchain = "vite" -> "main"
       [] st.toolchain = "next" -> "_app"
       [] OTHER -> "index")
        \o (IF st.useTypescript THEN ".tsx" ELSE ".jsx")

\* utils.readFromFile: the text of the file, an IOError when it cannot
\* be read.
readFromFile(directory, filename, code) ==
    [ok |-> directory.readable /\ filename \in directory.names,
     text |-> code]

IsReturned(node) == node.kind = "return"

IsRenderArgument(node) == node.kind = "render"

\* The JSXElement visitor of configureNext / configureViteOrCra on
\* element i; candidate says whether the element's parent is the one the
\* visitor looks for.
ProviderVisitor_NoFlag(body, i, providerWrapped, candidate) ==
    IF ~candidate
    THEN [body |-> body, at |-> i, wrapped |-> providerWrapped,
          skip |-> FALSE, skipped |-> FALSE]
    ELSE LET w == wrapJsxInProvider(body, i, "") IN
         [body |-> w.body, at |-> w.at, wrapped |-> TRUE, skip |-> TRUE,
          skipped |-> w.skipped]

ProviderVisitor(body, i, providerWrapped, candidate) ==
    IF providerWrapped \/ ~candidate
    THEN [body |-> body, at |-> i, wrapped |-> providerWrapped,
          skip |-> FALSE, skipped |-> FALSE]
    ELSE LET w == wrapJsxInProvider(body, i, "") IN
         [body |-> w.body, at |-> w.at, wrapped |-> TRUE, skip |-> TRUE,
          skipped |-> w.skipped]

\* AddRelayEnvironmentProviderTask.run: the switch on args.toolchain.
Provider_run ==
    /\ task = "provider"
    /\ pc = "run"
    /\ CASE settings.toolchain \in {"vite", "cra"} -> Goto("voc_read")
         [] settings.toolchain = "next" -> Goto("pnext_read")
         [] OTHER -> Fail("Unsupported toolchain")
    /\ message' = message \o " to " \o MainFilename(settings)
    /\ UNCHANGED <<runnerVars, startupVars, io, pending, disk>>
    /\ UNCHANGED <<task, settings, dir, text, original, before,
                   ast, cursor, wrapped, skipMsg, prevOutcome, writes, runNo, envCopied>>

\* configureNext: readFromFile, parseAst, and the traversal starting.
Provider_configureNext_parse ==
    /\ pc = "pnext_read"
    /\ LET code == readFromFile(dir, MainFilename(settings), text)
           parsed == parseAst(code.text)
       IN
       IF ~code.ok
       THEN Fail("io error") /\ UNCHANGED <<ast, cursor>>
       ELSE IF ~parsed.ok
       THEN Fail("parse error") /\ UNCHANGED <<ast, cursor>>
       ELSE /\ ast' = parsed.tree
            /\ cursor' = FirstJsx(parsed.tree)
            /\ Goto(IF FirstJsx(parsed.tree) = 0
                    THEN "pnext_end"
                    ELSE "pnext_visit")
    /\ Call("readFromFile")
    /\ UNCHANGED <<runnerVars, startupVars, pending, message, disk>>
    /\ UNCHANGED <<task, settings, dir, text, original, before,
                   wrapped, skipMsg, prevOutcome, writes, runNo, envCopied>>

\* configureNext: the traversal enters the next JSXElement.
Provider_configureNext_JSXElement ==
    /\ pc = "pnext_visit"
    /\ LET r == ProviderVisitor(ast, cursor, wrapped, IsReturned(ast[cursor])) IN
       /\ ast' = r.body
       /\ wrapped' = r.wrapped
       /\ skipMsg' = IF r.skipped THEN "JSX already wrapped" ELSE skipMsg
       /\ cursor' = JsxAfter(r.body, r.at, r.skip)
       /\ Goto(IF JsxAfter(r.body, r.at, r.skip) = 0
               THEN "pnext_end"
               ELSE "pnext_visit")
    /\ UNCHANGED <<runnerVars, startupVars, ioVars>>
    /\ UNCHANGED <<task, settings, dir, text, original, before,
                   prevOutcome, writes, runNo, envCopied>>

\* configureNext after the traversal: the providerWrapped check, printAst
\* and writeToFile.
Provider_configureNext_write ==
    /\ pc = "pnext_end"
    /\ IF ~wrapped
       THEN Fail("Could not find JSX") /\ UNCHANGED <<io, pending>>
       ELSE AwaitWrite("writeToFile", "file", printAst(ast, text), "return")
    /\ UNCHANGED <<runnerVars, startupVars, message, disk>>
    /\ UNCHANGED <<task, settings, dir, text, writes, original, before, ast, cursor, wrapped,
                   skipMsg, prevOutcome, runNo, envCopied>>

\* configureViteOrCra: readFromFile, parseAst, and the traversal starting.
Provider_configureViteOrCra_parse ==
    /\ pc = "voc_read"
    /\ LET code == readFromFile(dir, MainFilename(settings), text)
           parsed == parseAst(code.text)
       IN
       IF ~code.ok
       THEN Fail("io error") /\ UNCHANGED <<ast, cursor>>
       ELSE IF ~parsed.ok
       THEN Fail("parse error") /\ UNCHANGED <<ast, cursor>>
       ELSE /\ ast' = parsed.tree
            /\ cursor' = FirstJsx(parsed.tree)
            /\ Goto(IF FirstJsx(parsed.tree) = 0
                    THEN "voc_end"
                    ELSE "voc_visit")
    /\ Call("readFromFile")
    /\ UNCHANGED <<runnerVars, startupVars, pending, message, disk>>
    /\ UNCHANGED <<task, settings, dir, text, original, before,
                   wrapped, skipMsg, prevOutcome, writes, runNo, envCopied>>

\* configureViteOrCra: the traversal enters the next JSXElement.
Provider_configureViteOrCra_JSXElement ==
    /\ pc = "voc_visit"
    /\ LET r == ProviderVisitor(ast, cursor, wrapped, IsRenderArgument(ast[cursor])) IN
       /\ ast' = r.body
       /\ wrapped' = r.wrapped
       /\ skipMsg' = IF r.skipped THEN "JSX already wrapped" ELSE skipMsg
       /\ cursor' = JsxAfter(r.body, r.at, r.skip)
       /\ Goto(IF JsxAfter(r.body, r.at, r.skip) = 0
               THEN "voc_end"
               ELSE "voc_visit")
    /\ UNCHANGED <<runnerVars, startupVars, ioVars>>
    /\ UNCHANGED <<task, settings, dir, text, original, before,
                   prevOutcome, writes, runNo, envCopied>>

\* configureViteOrCra after the traversal: the providerWrapped check,
\* printAst and writeToFile.
Provider_configureViteOrCra_write ==
    /\ pc = "voc_end"
    /\ IF ~wrapped
       THEN Fail("Could not find JSX passed to render") /\ UNCHANGED <<io, pending>>
       ELSE AwaitWrite("writeToFile", "file", printAst(ast, text), "return")
    /\ UNCHANGED <<runnerVars, startupVars, message, disk>>
    /\ UNCHANGED <<task, settings, dir, text, writes, original, before, ast, cursor, wrapped,
                   skipMsg, prevOutcome, runNo, envCopied>>

\* --------------------------------------------- AddRelayEnvironmentTask
\* The JSXElement visitor of AddRelayEnvironmentTask.configureVite on
\* element i.
EnvTaskVisitor(body, i) ==
    IF ~IsRenderArgument(body[i])
    THEN [body |-> body, at |-> i, skip |-> FALSE]
    ELSE LET w == wrapJsxInProvider(body, i, "./RelayEnvironment") IN
         [body |-> w.body, at |-> w.at, skip |-> ~w.skipped]

\* AddRelayEnvironmentTask.run: the switch on settings.toolChain.
EnvTask_run ==
    /\ task = "envtask"
    /\ pc = "run"
    /\ IF settings.toolchain = "vite"
       THEN Goto("env_copy")
       ELSE Fail("Unsupported toolchain")
    /\ UNCHANGED <<runnerVars, startupVars, ioVars>>
    /\ UNCHANGED <<task, settings, dir, text, original, before,
                   ast, cursor, wrapped, skipMsg, prevOutcome, writes, runNo, envCopied>>

\* configureVite: addRelayEnvironmentFile copies the environment asset.
EnvTask_addRelayEnvironmentFile ==
    /\ pc = "env_copy"
    /\ AwaitWrite("copyFile", "asset", NoText, "env_find")
    /\ UNCHANGED <<runnerVars, startupVars, message, disk>>
    /\ UNCHANGED <<task, settings, dir, text, original, before,
                   ast, cursor, wrapped, skipMsg, prevOutcome, writes, runNo, envCopied>>

\* configureVite: the main file is looked up.
EnvTask_configureVite_find ==
    /\ pc = "env_find"
    /\ IF findFileInDirectory(dir, MainFilename(settings)) = ""
       THEN Fail("not found")
       ELSE Goto("env_read")
    /\ Call("readdir")
    /\ UNCHANGED <<runnerVars, startupVars, pending, message, disk>>
    /\ UNCHANGED <<task, settings, dir, text, original, before,
                   ast, cursor, wrapped, skipMsg, prevOutcome, writes, runNo, envCopied>>

\* configureVite: readFile, parseAst, and the traversal starting.
EnvTask_configureVite_parse ==
    /\ pc = "env_read"
    /\ LET parsed == parseAst(text) IN
       IF ~parsed.ok
       THEN Fail("parse error") /\ UNCHANGED <<ast, cursor>>
       ELSE /\ ast' = parsed.tree
            /\ cursor' = FirstJsx(parsed.tree)
            /\ Goto(IF FirstJsx(parsed.tree) = 0
                    THEN "env_write"
                    ELSE "env_visit")
    /\ Call("readFile")
    /\ UNCHANGED <<runnerVars, startupVars, pending, message, disk>>
    /\ UNCHANGED <<task, settings, dir, text, original, before,
                   wrapped, skipMsg, prevOutcome, writes, runNo, envCopied>>

\* configureVite: the traversal enters the next JSXElement.
EnvTask_configureVite_JSXElement ==
    /\ pc = "env_visit"
    /\ LET r == EnvTaskVisitor(ast, cursor) IN
       /\ ast' = r.body
       /\ cursor' = JsxAfter(r.body, r.at, r.skip)
       /\ Goto(IF JsxAfter(r.body, r.at, r.skip) = 0
               THEN "env_write"
               ELSE "env_visit")
    /\ UNCHANGED <<runnerVars, startupVars, ioVars>>
    /\ UNCHANGED <<task, settings, dir, text, original, before,
                   wrapped, skipMsg, prevOutcome, writes, runNo, envCopied>>

\* configureVite: printAst and fs.writeFile after the traversal.
EnvTask_configureVite_write ==
    /\ pc = "env_write"
    /\ AwaitWrite("writeFile", "file", printAst(ast, text), "return")
    /\ UNCHANGED <<runnerVars, startupVars, message, disk>>
    /\ UNCHANGED <<task, settings, dir, text, writes, original, before, ast, cursor, wrapped,
                   skipMsg, prevOutcome, runNo, envCopied>>

\* ----------------------------------------------------------- main files
JsxTags == {"App", RELAY_ENV_PROVIDER}

JsxKinds == {"return", "render", "other", "jsx"}

\* An element as the file spells it: a provider element carries its
\* environment attribute.
Element(kind, tag, depth) ==
    Jsx(kind, tag,
        IF tag = RELAY_ENV_PROVIDER
        THEN << <<"environment", RELAY_ENV>> >>
        ELSE <<>>,
        depth)

JsxElements == {Element(kd, tg, d) : kd \in JsxKinds, tg \in JsxTags,
                                     d \in 0..(MaxJsx - 1)}

WellNested(els) ==
    \A i \in 1..Len(els) :
        /\ els[i].depth <= (IF i = 1 THEN 0 ELSE els[i - 1].depth + 1)
        /\ els[i].kind = "jsx" => els[i].depth > 0

JsxForests == {els \in SeqOf(JsxElements, MaxJsx) : WellNested(els)}

OwnImports(relativeImportPath) ==
    <<Import("named", RELAY_ENV_PROVIDER, RELAY_ENV_PROVIDER,
             REACT_RELAY_PACKAGE),
      Import("named", RELAY_ENV, RELAY_ENV, relativeImportPath)>>

AliasImports ==
    <<Import("named", RELAY_ENV_PROVIDER, "Provider", REACT_RELAY_PACKAGE),
      Import("named", RELAY_ENV, "environment", "")>>

AliasForests ==
    {<<Jsx("render", "App", <<>>, 0)>>,
     <<Jsx("return", "App", <<>>, 0)>>,
     <<Jsx("render", "Provider", << <<"environment", "environment">> >>, 0),
       Jsx("jsx", "App", <<>>, 1)>>,
     <<Jsx("return", "Provider", << <<"environment", "environment">> >>, 0),
       Jsx("jsx", "App", <<>>, 1)>>}

MainBodies(relativeImportPath) ==
    {i \o els : i \in {<<>>, OwnImports(relativeImportPath)},
                els \in JsxForests}
        \cup {AliasImports \o els : els \in AliasForests}

MainTexts(relativeImportPath) ==
    {[valid |-> TRUE, body |-> b] : b \in MainBodies(relativeImportPath)}
        \cup {NoText}

MainFiles == {"main.jsx", "main.tsx", "_app.jsx", "_app.tsx", "index.jsx"}

SrcDirectory == [readable |-> TRUE, names |-> MainFiles]

SrcDirectories ==
    {SrcDirectory,
     [readable |-> TRUE, names |-> {"main.tsx"}],
     [readable |-> FALSE, names |-> MainFiles]}

\* The projects the JSX tasks are started on.
JsxProjects ==
    {[task |-> "provider", settings |-> Settings(tc, FALSE, ""),
      dir |-> SrcDirectory, text |-> x] :
         tc \in {"vite", "next"}, x \in MainTexts("")}
        \cup {[task |-> "envtask", settings |-> Settings("vite", FALSE, ""),
               dir |-> SrcDirectory, text |-> x] :
                  x \in MainTexts("./RelayEnvironment")}
        \cup {[task |-> tk, settings |-> Settings(tc, ts, ""), dir |-> d,
               text |-> [valid |-> TRUE,
                         body |-> <<Jsx("render", "App", <<>>, 0)>>]] :
                  tk \in {"provider", "envtask"},
                  tc \in {"vite", "next", "cra", "webpack"}, ts \in BOOLEAN,
                  d \in SrcDirectories}

InitJsx ==
    /\ disk = NoDisk
    /\ \E p \in JsxProjects :
           /\ task = p.task
           /\ settings = p.settings
           /\ dir = p.dir
           /\ text = p.text
    /\ InitRun

NextJsx ==
    \/ Provider_run
    \/ Provider_configureNext_parse
    \/ Provider_configureNext_JSXElement
    \/ Provider_configureNext_write
    \/ Provider_configureViteOrCra_parse
    \/ Provider_configureViteOrCra_JSXElement
    \/ Provider_configureViteOrCra_write
    \/ EnvTask_run
    \/ EnvTask_addRelayEnvironmentFile
    \/ EnvTask_configureVite_find
    \/ EnvTask_configureVite_parse
    \/ EnvTask_configureVite_JSXElement
    \/ EnvTask_configureVite_write

\* ---------------------------------------- GenerateRelayEnvironmentTask
\* Generated code is a sequence of lines, a line the sequence of its
\* tokens: the names it declares and uses, and the punctuation the
\* replace calls of the task look for.  The empty line is <<>>.
HTTP_ENDPOINT == "HTTP_ENDPOINT"
WEBSOCKET_ENDPOINT == "WEBSOCKET_ENDPOINT"

\* The first position at which pat occurs in s, 0 when it does not.
IndexOf(s, pat) ==
    LET At(i) == SubSeq(s, i, i + Len(pat) - 1) = pat
        Hits == {i \in 1..(Len(s) - Len(pat) + 1) : At(i)}
    IN  IF Hits = {} THEN 0 ELSE CHOOSE i \in Hits : \A j \in Hits : i <= j

\* String.prototype.replace with a string pattern: the first occurrence.
Replace(s, pat, by) ==
    LET i == IndexOf(s, pat) IN
    IF i = 0
    THEN s
    ELSE SubSeq(s, 1, i - 1) \o by \o SubSeq(s, i + Len(pat), Len(s))

\* CodeBuilder.addLine.
addLine(code, line) == Append(code, line)

relayRuntimeImports_ObservableWhenTyped(args) ==
    <<"Environment", "Network", "RecordSource", "Store">>
        \o (IF args.typescript
            THEN (IF args.subscriptions THEN <<"Observable">> ELSE <<>>)
                     \o <<"FetchFunction">>
                     \o (IF args.subscriptions
                         THEN <<"SubscribeFunction">>
                         ELSE <<>>)
            ELSE <<>>)

\* The names imported from relay-runtime.
relayRuntimeImports(args) ==
    <<"Environment", "Network", "RecordSource", "Store">>
        \o (IF args.subscriptions THEN <<"Observable">> ELSE <<>>)
        \o (IF args.typescript
            THEN <<"FetchFunction">>
                     \o (IF args.subscriptions
                         THEN <<"SubscribeFunction">>
                         ELSE <<>>)
            ELSE <<>>)

fetchFn(args) ==
    LET typed == <<"const", "fetchFn", ":", "FetchFunction", "=", "fetch",
                   HTTP_ENDPOINT>>
    IN  IF ~args.typescript
        THEN Replace(typed, <<"fetchFn", ":", "FetchFunction">>, <<"fetchFn">>)
        ELSE typed

subscribeFn(args) ==
    IF args.typescript
    THEN <<"const", "subscribeFn", ":", "SubscribeFunction", "=",
           "Observable", "<any>", "subscriptionsClient">>
    ELSE <<"const", "subscribeFn", "=", "Observable", "subscriptionsClient">>

createEnv(args) ==
    LET plain == <<"function", "createRelayEnvironment", "Environment",
                   "Network", "fetchFn", "Store", "RecordSource">>
    IN  IF args.subscriptions
        THEN Replace(plain, <<"fetchFn">>, <<"fetchFn", ",", "subscribeFn">>)
        ELSE plain

initEnv(args) ==
    LET typed == <<"let", "relayEnvironment", ":", "Environment", "|",
                   "undefined", "export", "function", "initRelayEnvironment",
                   "initialRecords", "?", ":", "RecordMap",
                   "relayEnvironment", "createRelayEnvironment",
                   "RecordSource", "initialRecords", "relayEnvironment">>
    IN  IF ~args.typescript
        THEN Replace(Replace(typed,
                             <<"initialRecords", "?", ":", "RecordMap">>,
                             <<"initialRecords">>),
                     <<":", "Environment", "|", "undefined">>, <<>>)
        ELSE typed

\* b.code when addRelayEnvironmentFile has added every line.
EnvironmentCode(context) ==
    LET Blank == <<>>
        RecordMapImport ==
            IF context.typescript /\ context.toolchain = "next"
            THEN << <<"import", "RecordMap", "from",
                      "relay-runtime/lib/store/RelayStoreTypes">> >>
            ELSE <<>>
        Imports ==
            RecordMapImport
                \o << <<"import">> \o relayRuntimeImports(context)
                          \o <<"from", "relay-runtime">> >>
                \o (IF context.subscriptions
                    THEN << <<"import", "createClient", "from", "graphql-ws">> >>
                    ELSE <<>>)
                \o <<Blank>>
        Endpoints ==
            << <<"const", HTTP_ENDPOINT, "=", "http://localhost:5000/graphql">> >>
                \o (IF context.subscriptions
                    THEN << <<"const", WEBSOCKET_ENDPOINT, "=",
                              "ws://localhost:5000/graphql">> >>
                    ELSE <<>>)
                \o <<Blank>>
        Fetch == <<fetchFn(context), Blank>>
        Subscribe ==
            (IF context.subscriptions
             THEN << <<"const", "subscriptionsClient", "=", "createClient",
                       WEBSOCKET_ENDPOINT>>,
                     Blank,
                     subscribeFn(context)>>
             ELSE <<>>)
                \o <<Blank>>
        Create == <<createEnv(context), Blank>>
        Export ==
            IF context.toolchain = "next"
            THEN <<initEnv(context)>>
            ELSE << <<"export", "const", RELAY_ENV, "=",
                      "createRelayEnvironment">> >>
    IN  Imports \o Endpoints \o Fetch \o Subscribe \o Create \o Export

\* utils.prettifyCode: the formatter keeps the tokens and their order,
\* drops blank lines at both ends and leaves one blank line where the
\* code has several.
prettifyCode(code) ==
    LET Keep(i) ==
            \/ code[i] # <<>>
            \/ /\ i > 1
               /\ code[i - 1] # <<>>
               /\ \E j \in (i + 1)..Len(code) : code[j] # <<>>
        F[i \in 0..Len(code)] ==
            IF i = 0 THEN <<>>
            ELSE IF Keep(i) THEN Append(F[i - 1], code[i]) ELSE F[i - 1]
    IN  F[Len(code)]

\* A file of generated code.
CodeFile(code) == [valid |-> TRUE, body |-> code]

\* ProjectContext: the arguments and the resolved paths; artifactPath is
\* "" when no artifact directory is configured.
Context(toolchain, typescript, subscriptions, artifactPath) ==
    [toolchain |-> toolchain, typescript |-> typescript,
     useTypescript |-> typescript, subscriptions |-> subscriptions,
     artifactPath |-> artifactPath]

shouldSkipFile_Never(d) == FALSE

\* addRelayEnvironmentFile: fs.exists(relayEnvFile.abs).
shouldSkipFile(d) == d.relayEnvFile.exists

GenEnv_run_NoAwait ==
    /\ task = "genenv"
    /\ pc = "run"
    /\ message' = message \o " " \o RELAY_ENV
    /\ IF shouldSkipFile(disk)
       THEN /\ io' = Append(io, "exists")
            /\ skipMsg' = "File exists"
            /\ UNCHANGED <<pending, disk>>
       ELSE /\ io' = io \o <<"exists", "createDirectory", "writeToFile">>
            /\ disk' = [disk EXCEPT !.parentDirectory = TRUE]
            /\ pending' =
                   Append(pending,
                          [op |-> "writeToFile", target |-> "relayEnvFile",
                           text |-> CodeFile(prettifyCode(EnvironmentCode(settings))),
                           resume |-> ""])
            /\ UNCHANGED skipMsg
    /\ pc' = "done"
    /\ outcome' = "ok"
    /\ UNCHANGED <<runnerVars, startupVars>>
    /\ UNCHANGED <<task, settings, dir, text, original, before, ast, cursor,
                   wrapped, prevOutcome, writes, runNo, envCopied>>

\* GenerateRelayEnvironmentTask.run up to its await: the label, the
\* existence check, the code, createDirectory and the call of
\* writeToFile.
GenEnv_run ==
    /\ task = "genenv"
    /\ pc = "run"
    /\ message' = message \o " " \o RELAY_ENV
    /\ IF shouldSkipFile(disk)
       THEN /\ io' = Append(io, "exists")
            /\ skipMsg' = "File exists"
            /\ pc' = "done"
            /\ outcome' = "ok"
            /\ UNCHANGED <<pending, disk>>
       ELSE /\ io' = io \o <<"exists", "createDirectory", "writeToFile">>
            /\ disk' = [disk EXCEPT !.parentDirectory = TRUE]
            /\ pending' =
                   Append(pending,
                          [op |-> "writeToFile", target |-> "relayEnvFile",
                           text |-> CodeFile(prettifyCode(EnvironmentCode(settings))),
                           resume |-> "return"])
            /\ pc' = "await"
            /\ UNCHANGED <<skipMsg, outcome>>
    /\ UNCHANGED <<runnerVars, startupVars>>
    /\ UNCHANGED <<task, settings, dir, text, original, before, ast, cursor,
                   wrapped, prevOutcome, writes, runNo, envCopied>>

\* ---------------------------------------- GenerateArtifactDirectoryTask
ArtifactDir_isEnabled(context) == context.artifactPath # ""

GenerateArtifactDirectory_NoGuard(context, d, label) ==
    IF d.artifactDirectory
    THEN [io |-> <<"exists">>, skip |-> "Directory exists", disk |-> d,
          message |-> label \o " " \o context.artifactPath]
    ELSE [io |-> <<"exists", "createDirectory">>, skip |-> "",
          disk |-> [d EXCEPT !.artifactDirectory = TRUE],
          message |-> label \o " " \o context.artifactPath]

GenerateArtifactDirectory_AlwaysCreate(context, d, label) ==
    IF context.artifactPath = ""
    THEN [io |-> <<>>, skip |-> "", disk |-> d, message |-> label]
    ELSE [io |-> <<"exists", "createDirectory">>, skip |-> "",
          disk |-> [d EXCEPT !.artifactDirectory = TRUE],
          message |-> label \o " " \o context.artifactPath]

\* GenerateArtifactDirectoryTask.run on a disk d with the label it has:
\* the calls of the file system it makes, the skip it reports, the disk
\* and the label it leaves.
GenerateArtifactDirectory(context, d, label) ==
    IF context.artifactPath = ""
    THEN [io |-> <<>>, skip |-> "", disk |-> d, message |-> label]
    ELSE IF d.artifactDirectory
    THEN [io |-> <<"exists">>, skip |-> "Directory exists", disk |-> d,
          message |-> label \o " " \o context.artifactPath]
    ELSE [io |-> <<"exists", "createDirectory">>, skip |-> "",
          disk |-> [d EXCEPT !.artifactDirectory = TRUE],
          message |-> label \o " " \o context.artifactPath]

\* GenerateArtifactDirectoryTask.run: it has no await.
ArtifactDir_run ==
    /\ task = "artifact"
    /\ pc = "run"
    /\ LET r == GenerateArtifactDirectory(settings, disk, message) IN
       /\ io' = io \o r.io
       /\ skipMsg' = r.skip
       /\ disk' = r.disk
       /\ message' = r.message
    /\ pc' = "done"
    /\ outcome' = "ok"
    /\ UNCHANGED <<runnerVars, startupVars>>
    /\ UNCHANGED <<task, settings, dir, text, original, before, ast, cursor,
                   wrapped, prevOutcome, writes, runNo, envCopied, pending>>

\* isEnabled() of the task objects.
isEnabled(t, context) ==
    IF t = "artifact" THEN ArtifactDir_isEnabled(context) ELSE TRUE

\* The runner comes to the task: it may ask isEnabled() and leave a
\* disabled task alone, or call run().
Runner_callsTask ==
    /\ pc = "pending"
    /\ \E asks \in BOOLEAN :
           IF asks /\ ~isEnabled(task, settings)
           THEN pc' = "done" /\ outcome' = "disabled"
           ELSE Goto("run")
    /\ UNCHANGED <<runnerVars, startupVars>>
    /\ UNCHANGED <<task, settings, dir, text, original, before, ast, cursor,
                   wrapped, skipMsg, prevOutcome, writes, runNo, envCopied,
                   ioVars>>

\* The projects the two generating tasks are started on.
UserFile == [exists |-> TRUE, code |-> CodeFile(<< <<"export", "const", RELAY_ENV>> >>)]

Disks ==
    {[artifactDirectory |-> a, parentDirectory |-> f.exists \/ pd,
      relayEnvFile |-> f] :
        a \in BOOLEAN, pd \in BOOLEAN, f \in {NoFile, UserFile}}

FsProjects ==
    {[task |-> tk, settings |-> Context(tc, ts, sub, ap), disk |-> d] :
        tk \in {"artifact", "genenv"}, tc \in {"vite", "next", "cra"},
        ts \in BOOLEAN, sub \in BOOLEAN, ap \in {"", "./__generated__"},
        d \in Disks}

InitFs ==
    /\ \E p \in FsProjects :
           /\ task = p.task
           /\ settings = p.settings
           /\ disk = p.disk
    /\ dir = FullDirectory
    /\ text = NoText
    /\ original = text
    /\ before = text
    /\ ast = <<>>
    /\ cursor = 0
    /\ wrapped = FALSE
    /\ skipMsg = ""
    /\ pc = "pending"
    /\ outcome = "none"
    /\ prevOutcome = "none"
    /\ writes = 0
    /\ runNo = 1
    /\ envCopied = FALSE
    /\ io = <<>>
    /\ pending = <<>>
    /\ message = InitialMessage(task)

NextFs ==
    \/ Runner_callsTask
    \/ ArtifactDir_run
    \/ GenEnv_run

\* ----------------------------------------------------------- TaskRunner
Terminal == {"Succeeded", "Skipped", "Failed"}

Max(a, b) == IF a >= b THEN a ELSE b

\* The loop is at a task whose isEnabled() is false: the task is Skipped
\* without its operation being run.
Runner_skipDisabled ==
    /\ position <= NumTasks
    /\ status[position] = "Pending"
    /\ ~enabled[position]
    /\ status' = [status EXCEPT ![position] = "Skipped"]
    /\ position' = position + 1
    /\ UNCHANGED <<enabled, started, written, runResult, taskVars,
                   startupVars>>

Runner_startTask_NoAwait ==
    /\ position <= NumTasks
    /\ status[position] = "Pending"
    /\ enabled[position]
    /\ status' = [status EXCEPT ![position] = "Running"]
    /\ started' = [started EXCEPT ![position] = @ + 1]
    /\ position' = position + 1
    /\ UNCHANGED <<enabled, written, runResult, taskVars,
                   startupVars>>

\* The loop is at an enabled task: its operation is started and awaited.
Runner_startTask ==
    /\ position <= NumTasks
    /\ status[position] = "Pending"
    /\ enabled[position]
    /\ status' = [status EXCEPT ![position] = "Running"]
    /\ started' = [started EXCEPT ![position] = @ + 1]
    /\ UNCHANGED <<enabled, position, written, runResult, taskVars,
                   startupVars>>

Runner_taskSettles_Abort ==
    /\ \E i \in 1..NumTasks, o \in Terminal, wrote \in BOOLEAN :
           /\ status[i] = "Running"
           /\ status' = [status EXCEPT ![i] = o]
           /\ written' = IF wrote THEN written \cup {i} ELSE written
           /\ position' = IF o = "Failed"
                           THEN NumTasks + 1
                           ELSE Max(position, i + 1)
    /\ UNCHANGED <<enabled, started, runResult, taskVars,
                   startupVars>>

\* The operation of a running task settles, having written its files or
\* not; the failure is recorded in the task's state and the loop goes on
\* to the next task whatever the outcome is.
Runner_taskSettles ==
    /\ \E i \in 1..NumTasks, o \in Terminal, wrote \in BOOLEAN :
           /\ status[i] = "Running"
           /\ status' = [status EXCEPT ![i] = o]
           /\ written' = IF wrote THEN written \cup {i} ELSE written
           /\ position' = Max(position, i + 1)
    /\ UNCHANGED <<enabled, started, runResult, taskVars,
                   startupVars>>

\* The loop is over: run() reports failure when some task failed.
Runner_finish ==
    /\ position = NumTasks + 1
    /\ \A i \in 1..NumTasks : status[i] # "Running"
    /\ runResult = "none"
    /\ runResult' = IF \E i \in 1..NumTasks : status[i] = "Failed"
                    THEN "failed"
                    ELSE "succeeded"
    /\ UNCHANGED <<enabled, status, position, started, written, taskVars,
                   startupVars>>

InitRunner ==
    /\ enabled \in [1..NumTasks -> BOOLEAN]
    /\ status = [i \in 1..NumTasks |-> "Pending"]
    /\ position = 1
    /\ started = [i \in 1..NumTasks |-> 0]
    /\ written = {}
    /\ runResult = "none"

NextRunner ==
    \/ Runner_skipDisabled
    \/ Runner_startTask
    \/ Runner_taskSettles
    \/ Runner_finish

\* ------------------------------------------------------ ArgumentHandler
\* The argument definitions the handler is built with, in their order.
\* SchemaFileArgument is the definition of the source; the two before it
\* stand for definitions whose values it reads (toolchain, src).
ArgumentNames == <<"toolchain", "src", "schemaFile">>

ArgumentNameSet == {ArgumentNames[i] : i \in 1..Len(ArgumentNames)}

Undefined == "undefined"

\* Where a schema file can be, relative to the target directory.
SchemaLocations ==
    {"src/schema.graphql", "app/schema.graphql", "src/schema.txt",
     "../schema.graphql"}

\* env.rel(p).abs: the absolute form of a path of the target directory.
Abs(p) == "/project/" \o p

\* The location an absolute or relative path names.
LocationOf(value) ==
    IF value \in SchemaLocations
    THEN value
    ELSE CHOOSE p \in SchemaLocations : Abs(p) = value

\* path.join(srcPath, "schema.graphql")
JoinSchemaFile(srcPath) == srcPath \o "/schema.graphql"

\* The values an argument can have.
ArgumentValues(name) ==
    CASE name = "toolchain" -> {"vite", "next"}
      [] name = "src" -> {"src", "app"}
      [] name = "schemaFile" ->
            {""} \cup SchemaLocations \cup {Abs(p) : p \in SchemaLocations}

\* SchemaFileArgument.isValid: "true" or the message.
SchemaFile_isValid(value, fs) ==
    IF value = ""
    THEN "Required"
    ELSE IF LocationOf(value) = "src/schema.txt"
    THEN "File needs to end in .graphql"
    ELSE IF LocationOf(value) \notin fs.files
    THEN "Must be a file"
    ELSE IF LocationOf(value) = "../schema.graphql"
    THEN "Must be a file somewhere below"
    ELSE "true"

\* SchemaFileArgument.getDefaultValue
SchemaFile_getDefaultValue(existingArgs) ==
    LET srcPath == IF existingArgs.toolchain = "next"
                   THEN "src"
                   ELSE existingArgs.src
    IN  Abs(JoinSchemaFile(srcPath))

\* isValid of the definition called name.
isValid(name, value, args, fs) ==
    CASE name = "schemaFile" -> SchemaFile_isValid(value, fs)
      [] name = "src" ->
            IF value \in fs.directories THEN "true" ELSE "Must be a directory"
      [] OTHER -> "true"

\* What promptForValue of the definition can resolve to.
promptForValue(name, existingArgs, fs) ==
    IF name = "schemaFile"
    THEN {v \in {""} \cup SchemaLocations :
              SchemaFile_isValid(v, fs) = "true"}
    ELSE ArgumentValues(name)

\* What getDefaultValue of the definition can resolve to.
getDefaultValue(name, existingArgs) ==
    IF name = "schemaFile"
    THEN {SchemaFile_getDefaultValue(existingArgs)}
    ELSE ArgumentValues(name)

Invalid(name, args, fs) ==
    /\ args[name] # Undefined
    /\ isValid(name, args[name], args, fs) # "true"

validateArgs_LastInvalid(args, fs) ==
    LET bad == {i \in 1..Len(ArgumentNames) :
                   Invalid(ArgumentNames[i], args, fs)}
    IN  IF bad = {}
        THEN ""
        ELSE ArgumentNames[CHOOSE i \in bad : \A j \in bad : j <= i]

\* ArgumentHandler.validateArgs: the definition whose error is thrown,
\* "" when it returns.
validateArgs(args, fs) ==
    LET bad == {i \in 1..Len(ArgumentNames) :
                   Invalid(ArgumentNames[i], args, fs)}
    IN  IF bad = {}
        THEN ""
        ELSE ArgumentNames[CHOOSE i \in bad : \A j \in bad : i <= j]

\* promptForMissing: one turn of the loop over the definitions.
promptForMissing_argument ==
    /\ hpc = "loop"
    /\ argIndex <= Len(ArgumentNames)
    /\ LET name == ArgumentNames[argIndex]
           existingValue == parsedArgs[name]
       IN  IF existingValue # Undefined
           THEN UNCHANGED <<allArgs, prompted, basis>>
           ELSE IF ~parsedArgs.yes
           THEN /\ \E answer \in promptForValue(name, allArgs, targetFs) :
                       allArgs' = [allArgs EXCEPT ![name] = answer]
                /\ prompted' = [prompted EXCEPT ![name] = @ + 1]
                /\ basis' = [basis EXCEPT ![name] = allArgs]
           ELSE /\ \E defaultValue \in getDefaultValue(name, allArgs) :
                       allArgs' = [allArgs EXCEPT ![name] = defaultValue]
                /\ basis' = [basis EXCEPT ![name] = allArgs]
                /\ UNCHANGED prompted
    /\ argIndex' = argIndex + 1
    /\ UNCHANGED <<parsedArgs, hpc, thrown, targetFs>>
    /\ UNCHANGED <<taskVars, runnerVars, finderVars>>

\* promptForMissing after the loop: validateArgs(allArgs) and the return.
promptForMissing_validate ==
    /\ hpc = "loop"
    /\ argIndex = Len(ArgumentNames) + 1
    /\ thrown' = validateArgs(allArgs, targetFs)
    /\ hpc' = IF validateArgs(allArgs, targetFs) = "" THEN "returned" ELSE "thrown"
    /\ UNCHANGED <<parsedArgs, allArgs, argIndex, prompted, basis, targetFs>>
    /\ UNCHANGED <<taskVars, runnerVars, finderVars>>

\* The files and directories of the project the handler is used in.
Environments ==
    {[files |-> f, directories |-> d] :
        f \in {{}, {"src/schema.graphql"},
               {"src/schema.graphql", "app/schema.graphql", "src/schema.txt",
                "../schema.graphql"}},
        d \in {{"src", "app"}, {"src"}}}

\* What ArgumentHandler.parse can return: every value that is given has
\* passed validateArgs.
ParsedArguments(fs) ==
    {a \in [yes : BOOLEAN,
            toolchain : {Undefined} \cup ArgumentValues("toolchain"),
            src : {Undefined} \cup ArgumentValues("src"),
            schemaFile : {Undefined} \cup SchemaLocations] :
        validateArgs(a, fs) = ""}

InitHandler ==
    /\ targetFs \in Environments
    /\ parsedArgs \in ParsedArguments(targetFs)
    /\ allArgs = parsedArgs
    /\ argIndex = 1
    /\ hpc = "loop"
    /\ prompted = [n \in ArgumentNameSet |-> 0]
    /\ basis = [n \in ArgumentNameSet |-> parsedArgs]
    /\ thrown = ""

NoHandler ==
    /\ targetFs = [files |-> {}, directories |-> {}]
    /\ parsedArgs = [yes |-> FALSE]
    /\ allArgs = parsedArgs
    /\ argIndex = 0
    /\ hpc = "idle"
    /\ prompted = <<>>
    /\ basis = <<>>
    /\ thrown = ""

NextHandler ==
    \/ promptForMissing_argument
    \/ promptForMissing_validate

\* -------------------------------------------------- traverseUpToFindFile
\* The name of the package manifest.
PACKAGE_FILE == "package.json"

\* A directory path as path.join leaves it: "/" followed by down names
\* (kind "abs"), up times ".." followed by down names, "." when there is
\* neither (kind "rel"), or the empty string (kind "empty").
Path(kind, up, down) == [kind |-> kind, up |-> up, down |-> down]

NullPath == Path("null", 0, 0)

\* path.join(p, ".."): the last name is dropped; the root stays the
\* root; a relative path without names gets one more "..".
ParentPath(p) ==
    IF p.down > 0
    THEN [p EXCEPT !.down = @ - 1]
    ELSE IF p.kind = "abs"
    THEN p
    ELSE [p EXCEPT !.up = @ + 1]

\* How many directories below the filesystem root the path leads to
\* when the working directory is wd levels below the root.
Resolve(p, wd) ==
    IF p.kind = "abs"
    THEN p.down
    ELSE (IF p.up >= wd THEN 0 ELSE wd - p.up) + p.down

NoDirectory == [readable |-> FALSE, names |-> {}]

\* fs.readdir of the path: the listing of the directory, which throws
\* when the directory cannot be read or is not there.
DirectoryAt(tree, p, wd) ==
    IF Resolve(p, wd) \in DOMAIN tree
    THEN tree[Resolve(p, wd)]
    ELSE NoDirectory

NotFound == [found |-> FALSE, dir |-> NullPath]

traverseUp_return(value) ==
    /\ fpc' = "returned"
    /\ filepath' = value

\* traverseUpToFindFile: the test of the while loop, the awaited timeout
\* and findFileInDirectory on the current directory.
traverseUp_find ==
    /\ fpc = "while"
    /\ IF currentDirectory.kind = "empty"
       THEN traverseUp_return(NotFound) /\ UNCHANGED looked
       ELSE /\ looked' = Append(looked, Resolve(currentDirectory, cwd))
            /\ IF findFileInDirectory(DirectoryAt(fsys, currentDirectory, cwd),
                                      PACKAGE_FILE) # ""
               THEN traverseUp_return([found |-> TRUE,
                                       dir |-> currentDirectory])
               ELSE fpc' = "parent" /\ UNCHANGED filepath
    /\ UNCHANGED <<fsys, cwd, startDirectory, currentDirectory, previousDirectory>>
    /\ UNCHANGED <<taskVars, runnerVars, handlerVars>>

\* traverseUpToFindFile: the step to the parent directory and the
\* comparison with the directory it came from.
traverseUp_parent ==
    /\ fpc = "parent"
    /\ currentDirectory.up < MaxUp
    /\ previousDirectory' = currentDirectory
    /\ currentDirectory' = ParentPath(currentDirectory)
    /\ IF currentDirectory = ParentPath(currentDirectory)
       THEN traverseUp_return(NotFound)
       ELSE fpc' = "while" /\ UNCHANGED filepath
    /\ UNCHANGED <<fsys, cwd, startDirectory, looked>>
    /\ UNCHANGED <<taskVars, runnerVars, handlerVars>>

\* The directories a listing is given for.
FinderDirectories ==
    {[readable |-> TRUE, names |-> {PACKAGE_FILE}],
     [readable |-> TRUE, names |-> {"src"}],
     [readable |-> FALSE, names |-> {PACKAGE_FILE}]}

\* The starting directories: absolute ones, the working directory and
\* directories below it, directories above it, and the empty string.
StartDirectories ==
    {Path("abs", 0, d) : d \in 0..MaxDepth}
        \cup {Path("rel", 0, d) : d \in 0..1}
        \cup {Path("rel", u, 0) : u \in 1..2}
        \cup {Path("empty", 0, 0)}

InitFinder ==
    /\ fsys \in [0..MaxDepth -> FinderDirectories]
    /\ cwd \in 0..MaxDepth
    /\ startDirectory \in StartDirectories
    /\ currentDirectory = startDirectory
    /\ previousDirectory = NullPath
    /\ fpc = "while"
    /\ filepath = NotFound
    /\ looked = <<>>

NoFinder ==
    /\ fsys = [d \in 0..0 |-> NoDirectory]
    /\ cwd = 0
    /\ startDirectory = NullPath
    /\ currentDirectory = NullPath
    /\ previousDirectory = NullPath
    /\ fpc = "idle"
    /\ filepath = NotFound
    /\ looked = <<>>

NextFinder ==
    \/ traverseUp_find
    \/ traverseUp_parent

\* -------------------------------------------------------- specifications
NoRunner ==
    /\ enabled = <<>>
    /\ status = <<>>
    /\ position = 0
    /\ started = <<>>
    /\ written = {}
    /\ runResult = "none"

NoTask ==
    /\ task = "none"
    /\ settings = Settings("vite", FALSE, "")
    /\ dir = FullDirectory
    /\ text = NoText
    /\ pc = "idle"
    /\ original = text
    /\ before = text
    /\ ast = <<>>
    /\ cursor = 0
    /\ wrapped = FALSE
    /\ skipMsg = ""
    /\ outcome = "none"
    /\ prevOutcome = "none"
    /\ writes = 0
    /\ runNo = 1
    /\ envCopied = FALSE
    /\ io = <<>>
    /\ pending = <<>>
    /\ message = ""
    /\ disk = NoDisk

NoStartup == NoHandler /\ NoFinder

Init == (InitPlugin \/ InitJsx \/ InitFs) /\ NoRunner /\ NoStartup

Next == NextPlugin \/ NextJsx \/ NextFs

\* One task object run on one project, once or repeatedly.
Spec == Init /\ [][Next]_vars

InitTaskRunner == InitRunner /\ NoTask /\ NoStartup

\* The task runner on a list of tasks.
SpecRunner == InitTaskRunner /\ [][NextRunner]_vars

InitStartup ==
    /\ \/ InitHandler /\ NoFinder
       \/ InitFinder /\ NoHandler
    /\ NoTask
    /\ NoRunner

NextStartup == NextHandler \/ NextFinder

\* The start of the tool: the package manifest is looked up and the
\* arguments are completed.
SpecStartup == InitStartup /\ [][NextStartup]_vars

\* ================================================================ claims
IsJsxNode(st) == st.k = "jsx"

IsImportNode(st) == st.k = "import"

\* The JSX elements of a tree, in document order.
Elements(body) == SelectSeq(body, IsJsxNode)

SupportedPlugin == settings.toolchain \in {"vite", "next"}

\* C1: a second run of AddRelayPluginConfigurationTask on the file its
\* first run wrote leaves the text of the file identical (no second
\* import, plugins entry or compiler.relay property).
C1_SecondRunLeavesTextIdentical ==
    (task = "plugin" /\ pc = "done" /\ prevOutcome = "ok") => text = before

C1_Witness ==
    /\ task = "plugin"
    /\ pc = "done"
    /\ prevOutcome = "ok"
    /\ outcome = "ok"
    /\ runNo = 2
    /\ before # original
    /\ text = before

\* ---------------------------------------------------------------- C3
ExportOf(decl) == Stmt("export", "", "", "", "", "", decl)

PluginsObject(elems) == <<Prop("plugins", TRUE, Val("arr", elems))>>

C3_ObjectLiteralInput ==
    <<ExportOf(Expr("obj", "", FALSE, <<>>, PluginsObject(<<>>)))>>

C3_ObjectLiteralOutput ==
    <<ExportOf(Expr("obj", "", FALSE, <<>>, PluginsObject(<<relayId>>)))>>

C3_DefineConfigInput ==
    <<ExportOf(Expr("call", "defineConfig", TRUE,
                    <<Obj(PluginsObject(<<>>))>>, <<>>))>>

C3_DefineConfigOutput ==
    <<Import("default", "default", relayImportName, VITE_RELAY_MODULE),
      ExportOf(Expr("call", "defineConfig", TRUE,
                    <<Obj(PluginsObject(<<relayId>>))>>, <<>>))>>

\* C3 as stated: on `export default { plugins: [] }` configureVite yields
\* `export default { plugins: [relay] }`.
C3_ObjectLiteralUpsert ==
    (/\ task = "plugin"
     /\ settings.toolchain = "vite"
     /\ pc = "done"
     /\ findFileInDirectory(dir, ViteConfigFilename) # ""
     /\ original.body = C3_ObjectLiteralInput)
        => text.body = C3_ObjectLiteralOutput

\* C3 as amended: on `export default defineConfig({ plugins: [] })` the
\* run yields the relay import and `defineConfig({ plugins: [relay] })`,
\* and a run on that output leaves it as it is; on the bare object
\* literal `export default { plugins: [] }` the run fails and the file
\* keeps its text.
C3_DefineConfigUpsert ==
    (/\ task = "plugin"
     /\ settings.toolchain = "vite"
     /\ pc = "done"
     /\ findFileInDirectory(dir, ViteConfigFilename) # "")
        => /\ original.body = C3_DefineConfigInput
              => outcome = "ok" /\ text.body = C3_DefineConfigOutput
           /\ original.body = C3_ObjectLiteralInput
              => outcome = "expected defineConfig" /\ text = original

C3_Witness ==
    /\ task = "plugin"
    /\ pc = "done"
    /\ runNo = 2
    /\ original.body = C3_DefineConfigInput
    /\ before.body = C3_DefineConfigOutput
    /\ text.body = C3_DefineConfigOutput

\* ---------------------------------------------------------------- C4
HasModuleExportsAssignment(body) ==
    \E i \in 1..Len(body) :
        body[i].k = "assign" /\ IsModuleExportsAssignment(body[i])

HasDefineConfigExport(body) ==
    \E i \in 1..Len(body) :
        /\ body[i].k = "export"
        /\ IsDefineConfigCall(body[i].e)
        /\ body[i].e.args[1].t = "obj"

ConfigFileRead ==
    /\ original.valid
    /\ \/ /\ settings.toolchain = "vite"
          /\ findFileInDirectory(dir, ViteConfigFilename) # ""
       \/ /\ settings.toolchain = "next"
          /\ findFileInDirectory(dir, NEXTJS_CONFIG_FILE) # ""

NoRecognizedAnchor ==
    \/ settings.toolchain = "next" /\ ~HasModuleExportsAssignment(original.body)
    \/ settings.toolchain = "vite" /\ ~HasDefineConfigExport(original.body)

\* C4: on a config file without any recognized anchor the task fails and
\* the file keeps its text.
C4_NoAnchorFails ==
    (/\ task = "plugin"
     /\ pc = "done"
     /\ runNo = 1
     /\ ConfigFileRead
     /\ NoRecognizedAnchor)
        => outcome # "ok" /\ text = original

\* ---------------------------------------------------------------- C5
MainFileRead ==
    /\ original.valid
    /\ dir.readable
    /\ MainFilename(settings) \in dir.names
    /\ \/ task = "provider" /\ settings.toolchain \in {"vite", "cra", "next"}
       \/ task = "envtask" /\ settings.toolchain = "vite"

IsCandidate(node) ==
    /\ node.k = "jsx"
    /\ IF settings.toolchain = "next"
       THEN node.kind = "return"
       ELSE node.kind = "render"

NoCandidate(body) == \A i \in 1..Len(body) : ~IsCandidate(body[i])

\* C5: on a main file without a JSX element that is returned (next) or
\* passed to a render call (vite, cra) the task fails with its
\* could-not-find-JSX error and the main file is not written.
C5_NoJsxCandidateFails ==
    (/\ task \in {"provider", "envtask"}
     /\ pc = "done"
     /\ runNo = 1
     /\ MainFileRead
     /\ NoCandidate(original.body))
        => /\ outcome \in {"Could not find JSX",
                           "Could not find JSX passed to render"}
           /\ writes = 0
           /\ text = original

\* ---------------------------------------------------------------- C6
\* C6: a run of AddRelayPluginConfigurationTask or
\* AddRelayEnvironmentProviderTask that ends in an error has written
\* nothing: the file has the text it had when the run started, also when
\* visitors had changed the tree before the error.
C6_ErrorLeavesFileUnchanged ==
    (task \in {"plugin", "provider"} /\ pc = "done" /\ outcome # "ok")
        => text = before /\ writes = 0

C6_Witness ==
    /\ task = "plugin"
    /\ pc = "done"
    /\ outcome = "plugins is no array"
    /\ ast # before.body
    /\ text = before
    /\ writes = 0

\* ---------------------------------------------------------------- C7
RightIsObjectLiteral(body, i) == body[i].e.t = "obj"

\* The right-hand side is an identifier and statement n is the variable
\* declarator of that name, initialised with an object literal.
RightIsBoundToObjectLiteral(body, i, n) ==
    /\ body[i].e.t = "id"
    /\ body[n].k = "var"
    /\ body[n].name = body[i].e.name
    /\ body[n].e.t = "obj"

CompilerIsObject(props) ==
    LET c == FirstIndex(props, IsCompilerProperty) IN
    c = 0 \/ props[c].val.t = "obj"

HasCompilerRelay(props) ==
    \E c \in 1..Len(props) :
        /\ IsCompilerProperty(props[c])
        /\ props[c].val.t = "obj"
        /\ hasRelayProperty(props[c].val.elems)

\* What the visitor does to the object literal held by statement n: it
\* fails on a `compiler` that is no object, and else leaves the object
\* with a compiler.relay property and every other statement as it was.
MutatesObjectOf(n) ==
    IF CompilerIsObject(ast[n].e.props)
    THEN /\ outcome' = "none"
         /\ HasCompilerRelay(ast'[n].e.props)
         /\ \A m \in 1..Len(ast) : m # n => ast'[m] = ast[m]
    ELSE outcome' = "compiler is no object"

UnsupportedShapeErrors ==
    {"variable is no object", "expected module.exports"}

\* C7: on `module.exports = X` the visitor of configureNext works on the
\* object literal X, or on the object literal the variable declarator of
\* the identifier X is initialised with, and throws an unsupported-shape
\* error for every other X, leaving the tree as it is.
C7_OneBindingHop ==
    [][(/\ pc = "next_assign"
        /\ IsModuleExportsAssignment(ast[cursor]))
          => IF RightIsObjectLiteral(ast, cursor)
             THEN MutatesObjectOf(cursor)
             ELSE IF \E n \in 1..Len(ast) :
                         RightIsBoundToObjectLiteral(ast, cursor, n)
             THEN \E n \in 1..Len(ast) :
                      /\ RightIsBoundToObjectLiteral(ast, cursor, n)
                      /\ MutatesObjectOf(n)
             ELSE /\ outcome' \in UnsupportedShapeErrors
                  /\ ast' = ast
                  /\ text' = text]_vars

\* The export names a variable that is bound to another variable, and
\* the run has ended with the unsupported-shape error.
C7_Witness ==
    /\ task = "plugin"
    /\ pc = "done"
    /\ outcome = "variable is no object"
    /\ cursor # 0
    /\ ast[cursor].e.t = "id"
    /\ \E n \in 1..Len(ast) :
           /\ ast[n].k = "var"
           /\ ast[n].name = ast[cursor].e.name
           /\ ast[n].e.t = "id"

\* ---------------------------------------------------------------- C8
IsRelayModuleDefaultImport(st) ==
    st.k = "import" /\ st.kind = "default" /\ st.src = VITE_RELAY_MODULE

PluginsOf(body) ==
    LET x == ExportDefaultIndex(body)
        props == body[x].e.args[1].props
    IN props[FirstIndex(props, IsPluginsProperty)].val.elems

\* C8: when the vite config imports the default export of
\* vite-plugin-relay under some local name, configureVite adds no second
\* import of that module and `plugins` refers to that local name.
C8_ReusesExistingImport ==
    (/\ task = "plugin"
     /\ settings.toolchain = "vite"
     /\ pc = "done"
     /\ outcome = "ok"
     /\ runNo = 1
     /\ HasDefineConfigExport(original.body))
        => \A i \in 1..Len(original.body) :
               IsRelayModuleDefaultImport(original.body[i])
                   => /\ Count(text.body, IsRelayModuleDefaultImport)
                            = Count(original.body, IsRelayModuleDefaultImport)
                      /\ \E n \in 1..Len(PluginsOf(text.body)) :
                             /\ PluginsOf(text.body)[n].t = "id"
                             /\ PluginsOf(text.body)[n].name
                                    = original.body[i].name

\* ---------------------------------------------------------------- C9
IsSynthElement(st) == st.k = "jsx" /\ st.synth

FirstCandidate(body) == FirstIndex(body, IsCandidate)

\* The local name the file has for the provider component, "" if none.
ProviderLocalName(body) ==
    LET Has(st) == /\ st.k = "import"
                   /\ st.kind = "named"
                   /\ st.imported = RELAY_ENV_PROVIDER
                   /\ st.src = REACT_RELAY_PACKAGE
        i == FirstIndex(body, Has)
    IN IF i = 0 THEN RELAY_ENV_PROVIDER ELSE body[i].name

\* C9: a run of a JSX-host task wraps exactly one element, the first
\* candidate in document order (none when that one is wrapped already);
\* no later or nested candidate is wrapped.
C9_ExactlyOneWrapped ==
    (/\ task \in {"provider", "envtask"}
     /\ pc = "done"
     /\ outcome = "ok"
     /\ runNo = 1
     /\ FirstCandidate(original.body) # 0)
        => LET first == original.body[FirstCandidate(original.body)]
               n == Count(ast, IsSynthElement)
           IN IF first.name = ProviderLocalName(original.body)
              THEN n = 0
              ELSE /\ n = 1
                   /\ Elements(ast)[FirstCandidate(Elements(original.body))]
                          .synth

\* ---------------------------------------------------------------- C2
\* The local name a file has for importName of packageName; importName
\* itself when the file does not import it yet.
LocalNameOf(body, importName, packageName) ==
    LET Has(st) == /\ st.k = "import"
                   /\ st.kind = "named"
                   /\ st.imported = importName
                   /\ st.src = packageName
        i == FirstIndex(body, Has)
    IN IF i = 0 THEN importName ELSE body[i].name

EnvironmentModule == IF task = "provider" THEN "" ELSE "./RelayEnvironment"

\* The traversal is about to hand an anchor to the wrap step.
AnchorVisit ==
    /\ pc \in {"pnext_visit", "voc_visit", "env_visit"}
    /\ IsCandidate(ast[cursor])
    /\ task = "provider" => ~wrapped

Children(els, a) ==
    {n \in (a + 1)..SubtreeEnd(els, a) : els[n].depth = els[a].depth + 1}

\* Provider elements whose parent element is a provider element.
NestedProviders(body) ==
    LET els == Elements(body)
        P == ProviderLocalName(body)
    IN {n \in 1..Len(els) :
          /\ els[n].name = P
          /\ els[n].kind = "jsx"
          /\ \E a \in 1..(n - 1) : n \in Children(els, a) /\ els[a].name = P}

WrapStep ==
    LET E == Elements(ast)
        F == Elements(ast')
        a == cursor - Count(ast, IsImportNode)
        last == SubtreeEnd(E, a)
        P == LocalNameOf(ast, RELAY_ENV_PROVIDER, REACT_RELAY_PACKAGE)
        V == LocalNameOf(ast, RELAY_ENV, EnvironmentModule)
    IN IF E[a].name # P
       THEN /\ Len(F) = Len(E) + 1
            /\ [F[a] EXCEPT !.synth = FALSE]
                   = Jsx(E[a].kind, P, << <<"environment", V>> >>, E[a].depth)
            /\ F[a + 1] = [E[a] EXCEPT !.kind = "jsx", !.depth = @ + 1]
            /\ Children(F, a) = {a + 1}
            /\ \A n \in 1..Len(E) :
                   F[IF n < a THEN n ELSE n + 1] =
                       IF n \in a..last
                       THEN [E[n] EXCEPT !.depth = @ + 1,
                                         !.kind = IF n = a THEN "jsx" ELSE @]
                       ELSE E[n]
            /\ skipMsg' = skipMsg
       ELSE /\ F = E
            /\ task = "provider" => skipMsg' = "JSX already wrapped"

\* C2: the wrap step replaces an anchor whose tag is not the provider's
\* local name by a provider element that has the one attribute
\* environment={<the environment's local name>} and the anchor as its
\* only child; on an anchor that has the provider's tag it reports the
\* JSX as already wrapped and leaves the JSX tree as it is.  A run of
\* AddRelayEnvironmentProviderTask on its own output is skipped, leaves
\* the file as it is, and no run puts a provider directly into a provider.
C2_WrapOrSkip ==
    /\ [][AnchorVisit => WrapStep]_vars
    /\ []((task = "provider" /\ pc = "done" /\ prevOutcome = "ok")
            => outcome = "ok" /\ skipMsg # "" /\ text = before)
    /\ []((task \in {"provider", "envtask"} /\ pc = "done")
            => Cardinality(NestedProviders(text.body))
                   = Cardinality(NestedProviders(original.body)))

\* `return <App/>` was wrapped by the first run, and the second run on
\* that output has been skipped.
C2_Witness ==
    /\ task = "provider"
    /\ settings.toolchain = "next"
    /\ pc = "done"
    /\ runNo = 2
    /\ skipMsg = "JSX already wrapped"
    /\ original.body = <<Jsx("return", "App", <<>>, 0)>>
    /\ text.body = OwnImports("")
                       \o <<Jsx("return", RELAY_ENV_PROVIDER,
                                << <<"environment", RELAY_ENV>> >>, 0),
                            Jsx("jsx", "App", <<>>, 1)>>

\* --------------------------------------------------------------- C10
AtMostOneRunning ==
    Cardinality({i \in 1..NumTasks : status[i] = "Running"}) <= 1

InListOrder ==
    \A i \in 1..NumTasks :
        status[i] # "Pending"
            => \A j \in 1..(i - 1) : status[j] \in Terminal

\* C10 as stated: every task of a finished run has been Running once.
C10_EveryTaskRanOnce ==
    runResult # "none" => \A i \in 1..NumTasks : started[i] = 1

\* C10 as amended: tasks run one after another in list order, never two
\* at a time; a task whose isEnabled holds goes Pending -> Running ->
\* terminal once, a task whose isEnabled is false goes from Pending to
\* Skipped without being Running; a terminal state is never left, and
\* when run() returns every task is in a terminal state.
C10_SequentialInListOrder ==
    /\ [](AtMostOneRunning /\ InListOrder)
    /\ [][\A i \in 1..NumTasks :
             \/ status'[i] = status[i]
             \/ /\ status[i] = "Pending"
                /\ enabled[i]
                /\ status'[i] = "Running"
             \/ /\ status[i] = "Pending"
                /\ ~enabled[i]
                /\ status'[i] = "Skipped"
             \/ /\ status[i] = "Running"
                /\ status'[i] \in Terminal]_vars
    /\ [](\A i \in 1..NumTasks : started[i] <= 1)
    /\ [](runResult # "none"
            => \A i \in 1..NumTasks :
                   /\ status[i] \in Terminal
                   /\ started[i] = IF enabled[i] THEN 1 ELSE 0)

\* A run of a list with a disabled task between two enabled ones is over.
C10_Witness ==
    /\ runResult # "none"
    /\ enabled[1]
    /\ ~enabled[2]
    /\ enabled[NumTasks]
    /\ started[1] = 1
    /\ started[NumTasks] = 1
    /\ status[2] = "Skipped"

\* --------------------------------------------------------------- C11
\* C11: a failed task stays recorded as Failed and the loop goes on: when
\* run() returns every task is in a terminal state and every enabled
\* task has been run, also the ones after a failed task; the run is
\* reported failed exactly when some task failed; no step of the runner
\* takes a written file away.
C11_FailureIsolated ==
    /\ [](runResult # "none"
            => /\ runResult = "failed"
                     <=> \E i \in 1..NumTasks : status[i] = "Failed"
               /\ \A i \in 1..NumTasks :
                      /\ status[i] \in Terminal
                      /\ enabled[i] => started[i] = 1)
    /\ [][/\ written \subseteq written'
          /\ \A i \in 1..NumTasks :
                 status[i] = "Failed" => status'[i] = "Failed"]_vars

\* The first task succeeded and wrote its file, the second failed, the
\* last one ran all the same; the run is reported failed and the first
\* task's file is still there.
C11_Witness ==
    /\ runResult = "failed"
    /\ status[1] = "Succeeded"
    /\ 1 \in written
    /\ status[2] = "Failed"
    /\ started[NumTasks] = 1
    /\ status[NumTasks] = "Succeeded"

\* --------------------------------------------------------------- C12
Calls(name) == Cardinality({i \in 1..Len(io) : io[i] = name})

\* C12: on a context without artifact path GenerateArtifactDirectoryTask
\* has no effect, whether the runner asks isEnabled() and skips the task
\* or calls run(): no step calls exists or createDirectory, changes the
\* disk, amends the label or reports a skip, and the task ends without
\* an error.
C12_DisabledTaskHasNoEffect ==
    /\ [][(task = "artifact" /\ ~isEnabled(task, settings))
            => /\ io' = <<>>
               /\ disk' = disk
               /\ message' = InitialMessage(task)
               /\ skipMsg' = ""
               /\ pending' = <<>>]_vars
    /\ []((task = "artifact" /\ ~isEnabled(task, settings) /\ pc = "done")
            => outcome \in {"disabled", "ok"})

\* The runner skipped the disabled task in the first run; in the second
\* run() was called all the same and returned.
C12_Witness ==
    /\ task = "artifact"
    /\ settings.artifactPath = ""
    /\ ~disk.artifactDirectory
    /\ runNo = 2
    /\ prevOutcome = "disabled"
    /\ pc = "done"
    /\ outcome = "ok"
    /\ io = <<>>
    /\ message = "Generate artifact directory"

\* --------------------------------------------------------------- C13
\* C13: when run() has settled none of the task's writes is pending and
\* every write it issued is on the disk: the target file has been written
\* as often as writeFile / writeToFile was called on it, a copied asset,
\* a created directory and a written environment file are there; so the
\* next run starts on what this run wrote.
C13_WritesSettleBeforeRunReturns ==
    pc = "done"
        => /\ pending = <<>>
           /\ task \in {"plugin", "provider", "envtask"}
                 => writes = Calls("writeFile") + Calls("writeToFile")
           /\ Calls("copyFile") > 0 => envCopied
           /\ (task = "genenv" /\ Calls("writeToFile") > 0)
                 => disk.relayEnvFile.exists
           /\ (task = "genenv" /\ Calls("createDirectory") > 0)
                 => disk.parentDirectory
           /\ (task = "artifact" /\ Calls("createDirectory") > 0)
                 => disk.artifactDirectory

\* AddRelayEnvironmentTask has returned: the asset was copied and the
\* main file written, both awaited.
C13_Witness ==
    /\ task = "envtask"
    /\ pc = "done"
    /\ outcome = "ok"
    /\ io = <<"copyFile", "readdir", "readFile", "writeFile">>
    /\ envCopied
    /\ writes = 1
    /\ text # before
    /\ pending = <<>>

\* --------------------------------------------------------------- C18
\* C18: a run() of GenerateArtifactDirectoryTask calls createDirectory
\* exactly when an artifact path is configured and the directory is not
\* there; on a directory that is there it reports the skip "Directory
\* exists" and leaves the disk alone; a run after a run that went through
\* run() with a path is skipped and creates nothing.
C18_CreatesDirectoryOnce ==
    /\ [][(task = "artifact" /\ pc = "run" /\ pc' = "done")
            => /\ io' = IF settings.artifactPath # "" /\ ~disk.artifactDirectory
                        THEN io \o <<"exists", "createDirectory">>
                        ELSE IF settings.artifactPath # ""
                        THEN io \o <<"exists">>
                        ELSE io
               /\ (settings.artifactPath # "" /\ disk.artifactDirectory)
                     => skipMsg' = "Directory exists" /\ disk' = disk
               /\ (settings.artifactPath # "" /\ ~disk.artifactDirectory)
                     => skipMsg' = "" /\ disk'.artifactDirectory]_vars
    /\ []((/\ task = "artifact"
           /\ settings.artifactPath # ""
           /\ runNo > 1
           /\ pc = "done")
            => /\ skipMsg = "Directory exists"
               /\ Calls("createDirectory") = 0
               /\ disk.artifactDirectory)

\* The second run on a project with an artifact path is over.
C18_Witness ==
    /\ task = "artifact"
    /\ settings.artifactPath = "./__generated__"
    /\ runNo = 2
    /\ pc = "done"
    /\ prevOutcome = "ok"
    /\ skipMsg = "Directory exists"
    /\ io = <<"exists">>
    /\ disk.artifactDirectory

\* --------------------------------------------------------------- C19
\* C19: GenerateRelayEnvironmentTask leaves an environment file that is
\* there as it is: it reports the skip "File exists" and calls neither
\* createDirectory nor writeToFile.  When the file is not there it calls
\* createDirectory, then writeToFile, once, and the environment file on
\* disk is the generated code when run() has returned.
C19_NeverOverwritesEnvironmentFile ==
    /\ [][(task = "genenv" /\ disk.relayEnvFile.exists)
            => disk' = disk /\ pending' = pending]_vars
    /\ [][(task = "genenv" /\ pc = "run")
            => IF disk.relayEnvFile.exists
               THEN /\ io' = io \o <<"exists">>
                    /\ skipMsg' = "File exists"
                    /\ pc' = "done"
               ELSE /\ io' = io \o <<"exists", "createDirectory", "writeToFile">>
                    /\ disk'.parentDirectory
                    /\ ~disk'.relayEnvFile.exists
                    /\ Len(pending') = 1
                    /\ skipMsg' = ""]_vars
    /\ [](task = "genenv"
            => /\ Calls("writeToFile") <= 1
               /\ Calls("createDirectory") = Calls("writeToFile")
               /\ (pc = "done" /\ outcome = "ok" /\ skipMsg = "")
                     => /\ Calls("writeToFile") = 1
                        /\ disk.relayEnvFile.exists
                        /\ disk.relayEnvFile.code =
                               CodeFile(prettifyCode(EnvironmentCode(settings))))

\* The first run wrote the environment file, the second one found it and
\* was skipped.
C19_Witness ==
    /\ task = "genenv"
    /\ runNo = 2
    /\ pc = "done"
    /\ prevOutcome = "ok"
    /\ skipMsg = "File exists"
    /\ io = <<"exists">>
    /\ disk.relayEnvFile.exists
    /\ disk.relayEnvFile # UserFile

\* --------------------------------------------------------------- C14
\* The property of an object that is named key, whether the key is
\* written as an identifier or as a string literal; 0 when there is none.
PropertyNamed(props, key) ==
    LET Named(p) == p.key = key IN FirstIndex(props, Named)

ElementNamed(elems, key) ==
    LET Named(el) == el.t \in {"prop", "strprop"} /\ el.name = key
    IN  FirstIndex(elems, Named)

\* s2 is s1 with one element appended.
AppendsOne(s1, s2) ==
    /\ Len(s2) = Len(s1) + 1
    /\ SubSeq(s2, 1, Len(s1)) = s1

\* The object literal the visitor works on.
ExportedObject == ResolveExportedObject(ast, cursor)

\* C14: a step of the AssignmentExpression visitor that does not throw
\* leaves the tree as it is when the `compiler` object has a `relay`
\* property, whatever its value; otherwise it appends `relay` after the
\* properties of `compiler`, or `compiler` with `relay` after the
\* properties of the configuration object, and changes nothing else.
C14_PresenceAloneDecides ==
    [][(/\ task = "plugin"
        /\ pc = "next_assign"
        /\ pc' # "done")
          => LET n == ExportedObject
                 props == ast[n].e.props
                 after == ast'[n].e.props
                 c == PropertyNamed(props, "compiler")
             IN  /\ \A m \in 1..Len(ast) : m # n => ast'[m] = ast[m]
                 /\ IF c = 0
                    THEN /\ AppendsOne(props, after)
                         /\ after[Len(after)].key = "compiler"
                         /\ Len(after[Len(after)].val.elems) = 1
                         /\ ElementNamed(after[Len(after)].val.elems, "relay") = 1
                    ELSE IF ElementNamed(props[c].val.elems, "relay") # 0
                    THEN ast' = ast
                    ELSE /\ after = [props EXCEPT ![c].val.elems =
                                                       after[c].val.elems]
                         /\ AppendsOne(props[c].val.elems, after[c].val.elems)
                         /\ ElementNamed(after[c].val.elems, "relay")
                                = Len(after[c].val.elems)]_vars

\* --------------------------------------------------------------- C15
\* C15: the ExportDefaultDeclaration visitor goes on only for
\* `defineConfig(<object literal>)`; there it fails when `plugins` is no
\* array literal, uses the `plugins` array that is there, creates one when
\* the object has no `plugins` property, and appends the identifier
\* `relay` exactly when no element of the array is that identifier.
C15_ViteMatcherAndUpsert ==
    [][(/\ task = "plugin"
        /\ pc = "vite_export")
          => LET decl == ast[cursor].e
                 accepted == IsDefineConfigCall(decl) /\ decl.args[1].t = "obj"
                 props == decl.args[1].props
                 after == ast'[cursor].e.args[1].props
                 p == PropertyNamed(props, "plugins")
             IN  IF ~accepted
                 THEN pc' = "done" /\ ast' = ast
                 ELSE IF p = 0
                 THEN /\ pc' # "done"
                      /\ AppendsOne(props, after)
                      /\ after[Len(after)].key = "plugins"
                      /\ after[Len(after)].val.t = "arr"
                      /\ Len(after[Len(after)].val.elems) = 1
                      /\ IsRelayIdentifier(after[Len(after)].val.elems[1])
                 ELSE IF props[p].val.t # "arr"
                 THEN pc' = "done" /\ ast' = ast
                 ELSE /\ pc' # "done"
                      /\ after = [props EXCEPT ![p].val.elems =
                                                  after[p].val.elems]
                      /\ IF \E i \in 1..Len(props[p].val.elems) :
                                IsRelayIdentifier(props[p].val.elems[i])
                         THEN ast' = ast
                         ELSE /\ AppendsOne(props[p].val.elems,
                                            after[p].val.elems)
                              /\ IsRelayIdentifier(
                                     after[p].val.elems[Len(after[p].val.elems)])
                 ]_vars

\* --------------------------------------------------------------- C16
\* Some import declaration of body imports importName of packageName
\* under the local name id.
ImportsAs(body, importName, packageName, id) ==
    \E n \in 1..Len(body) :
        /\ body[n].k = "import"
        /\ body[n].kind = "named"
        /\ body[n].imported = importName
        /\ body[n].src = packageName
        /\ body[n].name = id

\* C16: a visit in which AddRelayEnvironmentProviderTask calls
\* wrapJsxInProvider leaves both imports in the tree, also when the JSX
\* is reported as already wrapped, and every provider element it inserts
\* has as its tag the identifier import-ensure returned for the provider
\* component and as its environment attribute the identifier
\* import-ensure returned for the environment.
C16_ProviderNamesEnsuredImports ==
    [][(/\ task = "provider"
        /\ pc \in {"pnext_visit", "voc_visit"}
        /\ ~wrapped
        /\ wrapped')
          => LET env == insertNamedImport(ast, RELAY_ENV, "")
                 prov == insertNamedImport(env.body, RELAY_ENV_PROVIDER,
                                           REACT_RELAY_PACKAGE)
             IN  /\ ImportsAs(ast', RELAY_ENV, "", env.id)
                 /\ ImportsAs(ast', RELAY_ENV_PROVIDER, REACT_RELAY_PACKAGE,
                              prov.id)
                 /\ \A n \in 1..Len(ast') :
                       (ast'[n].k = "jsx" /\ ast'[n].synth)
                           => /\ ast'[n].name = prov.id
                              /\ ast'[n].attrs =
                                     << <<"environment", env.id>> >>
                 /\ (skipMsg' = "")
                        <=> \E n \in 1..Len(ast') :
                               ast'[n].k = "jsx" /\ ast'[n].synth]_vars

\* A provider element was inserted under the local names the file
\* already imports the provider and the environment with, and the file
\* was written.
C16_Witness ==
    /\ task = "provider"
    /\ pc = "done"
    /\ outcome = "ok"
    /\ \E n \in 1..Len(ast) :
          /\ ast[n].k = "jsx"
          /\ ast[n].synth
          /\ ast[n].name = "Provider"
          /\ ast[n].attrs = << <<"environment", "environment">> >>
    /\ ~ImportsAs(ast, RELAY_ENV_PROVIDER, REACT_RELAY_PACKAGE,
                  RELAY_ENV_PROVIDER)

\* --------------------------------------------------------------- C17
ViteSteps == {"vite_find", "vite_read", "vite_export", "vite_write"}

NextSteps == {"next_find", "next_read", "next_assign", "next_write"}

ViteOrCraSteps == {"voc_read", "voc_visit", "voc_end"}

ProviderNextSteps == {"pnext_read", "pnext_visit", "pnext_end"}

\* run() has thrown 'Unsupported toolchain' and no file was searched,
\* read or written.
FailedUnsupported ==
    /\ pc = "done"
    /\ outcome = "Unsupported toolchain"
    /\ io = <<>>
    /\ pending = <<>>
    /\ writes = 0
    /\ text = before

\* C17: the matcher a task works with is the one of the toolchain of the
\* settings, whatever the file looks like: the plugin task is in
\* configureVite only for vite and in configureNext only for next, the
\* provider task is in configureViteOrCra only for vite and cra and in
\* configureNext only for next, a supported toolchain never fails as
\* unsupported, and with any other toolchain run() fails with
\* 'Unsupported toolchain' before a file is searched, read or written.
C17_SelectedByToolchainOnly ==
    /\ task = "plugin" =>
          /\ pc \in ViteSteps => settings.toolchain = "vite"
          /\ pc \in NextSteps => settings.toolchain = "next"
          /\ IF settings.toolchain \in {"vite", "next"}
             THEN outcome # "Unsupported toolchain"
             ELSE pc = "run" \/ FailedUnsupported
    /\ task = "provider" =>
          /\ pc \in ViteOrCraSteps => settings.toolchain \in {"vite", "cra"}
          /\ pc \in ProviderNextSteps => settings.toolchain = "next"
          /\ IF settings.toolchain \in {"vite", "cra", "next"}
             THEN outcome # "Unsupported toolchain"
             ELSE pc = "run" \/ FailedUnsupported

\* The plugin task has failed as unsupported on a file that has the
\* default export the vite matcher looks for.
C17_Witness ==
    /\ task = "plugin"
    /\ settings.toolchain = "cra"
    /\ FailedUnsupported
    /\ ExportDefaultIndex(text.body) # 0
    /\ IsDefineConfigCall(text.body[ExportDefaultIndex(text.body)].e)

\* --------------------------------------------------------------- C20
\* The tokens of a file of generated code.
Tokens(code) == UNION {{code[l][i] : i \in 1..Len(code[l])} : l \in 1..Len(code)}

\* The names a line imports: what stands between `import` and `from`.
ImportedBy(line) ==
    IF Len(line) > 0 /\ line[1] = "import"
    THEN {line[i] : i \in 2..(IndexOf(line, <<"from">>) - 1)}
    ELSE {}

\* The names a line declares with const, let or function.
DeclaredBy(line) ==
    {line[i + 1] : i \in {j \in 1..(Len(line) - 1) :
                             line[j] \in {"const", "let", "function"}}}

Declared(code) ==
    UNION {ImportedBy(code[l]) \cup DeclaredBy(code[l]) : l \in 1..Len(code)}

\* The names of module level that some variant of the generated file
\* imports or declares.
ModuleNames ==
    {"Environment", "Network", "RecordSource", "Store", "Observable",
     "FetchFunction", "SubscribeFunction", "RecordMap", "createClient",
     HTTP_ENDPOINT, WEBSOCKET_ENDPOINT, "fetchFn", "subscribeFn",
     "subscriptionsClient", "createRelayEnvironment", "relayEnvironment",
     RELAY_ENV}

Used(code) == Tokens(code) \cap ModuleNames

SubscriptionNames ==
    {"Observable", "graphql-ws", "createClient", WEBSOCKET_ENDPOINT,
     "subscriptionsClient", "subscribeFn"}

TypescriptNames ==
    {"FetchFunction", "SubscribeFunction", "RecordMap", ":", "<any>"}

\* The task has written the environment file in this run.
EnvironmentFileWritten ==
    /\ task = "genenv"
    /\ pc = "done"
    /\ Calls("writeToFile") = 1

\* C20: the environment file GenerateRelayEnvironmentTask has written
\* holds the subscription names exactly when subscriptions is set, the
\* TypeScript-only names and annotations only when typescript is set, and
\* every module-level name it uses is imported or declared in it.
C20_GeneratedCodeMatchesFlags ==
    EnvironmentFileWritten
        => LET code == disk.relayEnvFile.code.body IN
           /\ disk.relayEnvFile.exists
           /\ disk.relayEnvFile.code.valid
           /\ \A n \in SubscriptionNames :
                 (n \in Tokens(code)) <=> settings.subscriptions
           /\ \A n \in TypescriptNames :
                 (n \in Tokens(code)) => settings.typescript
           /\ Used(code) \subseteq Declared(code)
           /\ "createRelayEnvironment" \in Used(code)
           /\ "fetchFn" \in Used(code)

\* A JavaScript file with subscriptions was written for next: every
\* replace of the task has acted and subscribeFn is passed to
\* Network.create.
C20_Witness ==
    /\ EnvironmentFileWritten
    /\ settings.subscriptions
    /\ ~settings.typescript
    /\ settings.toolchain = "next"
    /\ IndexOf(createEnv(settings), <<"fetchFn", ",", "subscribeFn">>) # 0
    /\ \E l \in 1..Len(disk.relayEnvFile.code.body) :
          disk.relayEnvFile.code.body[l] = createEnv(settings)

\* --------------------------------------------------------------- C21
\* The names a file of generated code exports: what `export const`,
\* `export let` or `export function` declares.
ExportedNames(code) ==
    UNION {{code[l][i + 2] : i \in {j \in 1..(Len(code[l]) - 2) :
                                       /\ code[l][j] = "export"
                                       /\ code[l][j + 1] \in
                                              {"const", "let", "function"}}} :
           l \in 1..Len(code)}

\* The file GenerateRelayEnvironmentTask writes for a project.
GeneratedEnvironmentFile(toolchain, typescript, subscriptions) ==
    prettifyCode(EnvironmentCode(Context(toolchain, typescript,
                                         subscriptions, "")))

\* The name the import declaration that binds the local name id imports.
ImportedNameOf(body, id) ==
    LET Binds(st) == st.k = "import" /\ st.name = id
    IN  body[FirstIndex(body, Binds)].imported

\* C21: when AddRelayEnvironmentProviderTask has inserted a provider, the
\* name its environment attribute refers to is exported by the file
\* GenerateRelayEnvironmentTask generates for the toolchain of the
\* project.
C21_EnvironmentIsExported ==
    (/\ task = "provider"
     /\ pc = "done"
     /\ outcome = "ok")
        => \A n \in 1..Len(ast) :
              (ast[n].k = "jsx" /\ ast[n].synth)
                  => \A sub \in BOOLEAN :
                        ImportedNameOf(ast, ast[n].attrs[1][2])
                            \in ExportedNames(
                                    GeneratedEnvironmentFile(
                                        settings.toolchain,
                                        settings.useTypescript, sub))

\* --------------------------------------------------------------- C22
\* The place of a definition in the list.
DefinitionIndex(name) ==
    CHOOSE i \in 1..Len(ArgumentNames) : ArgumentNames[i] = name

\* The values resolved when the loop comes to the definition called
\* name: those of the definitions before it, and what the command line
\* gave for the others.
ResolvedBefore(name) ==
    [m \in DOMAIN allArgs |->
        IF m \in ArgumentNameSet
           /\ DefinitionIndex(m) >= DefinitionIndex(name)
        THEN parsedArgs[m]
        ELSE allArgs[m]]

\* C22: promptForMissing goes through the definitions in their order;
\* a value given on the command line is kept and not prompted for; with
\* yes nothing is prompted and a missing argument has a default computed
\* from the values resolved before it; without yes a missing argument is
\* prompted once; it returns only when every definition has a value that
\* is valid, and otherwise throws the error of the first definition, in
\* their order, whose value is not.
C22_PromptForMissing ==
    hpc \in {"loop", "returned", "thrown"}
        => /\ \A n \in ArgumentNameSet :
                /\ prompted[n] <= 1
                /\ parsedArgs.yes => prompted[n] = 0
                /\ parsedArgs[n] # Undefined
                       => allArgs[n] = parsedArgs[n] /\ prompted[n] = 0
                /\ DefinitionIndex(n) >= argIndex
                       => allArgs[n] = parsedArgs[n] /\ prompted[n] = 0
                /\ (DefinitionIndex(n) < argIndex)
                       => /\ allArgs[n] # Undefined
                          /\ parsedArgs[n] = Undefined
                                => /\ basis[n] = ResolvedBefore(n)
                                   /\ IF parsedArgs.yes
                                      THEN allArgs[n] \in
                                               getDefaultValue(
                                                   n, ResolvedBefore(n))
                                      ELSE prompted[n] = 1
           /\ hpc = "returned"
                  => /\ argIndex = Len(ArgumentNames) + 1
                     /\ \A n \in ArgumentNameSet :
                           isValid(n, allArgs[n], allArgs, targetFs) = "true"
           /\ hpc = "thrown"
                  => /\ argIndex = Len(ArgumentNames) + 1
                     /\ thrown \in ArgumentNameSet
                     /\ isValid(thrown, allArgs[thrown], allArgs, targetFs)
                            # "true"
                     /\ \A n \in ArgumentNameSet :
                           DefinitionIndex(n) < DefinitionIndex(thrown)
                               => isValid(n, allArgs[n], allArgs, targetFs)
                                      = "true"

\* With yes and only the toolchain given, the handler has returned the
\* toolchain as given and defaults for the two missing arguments, the
\* schema file computed from the default of src.
C22_Witness ==
    /\ hpc = "returned"
    /\ parsedArgs.yes
    /\ parsedArgs.toolchain = "vite"
    /\ parsedArgs.src = Undefined
    /\ parsedArgs.schemaFile = Undefined
    /\ allArgs.toolchain = "vite"
    /\ allArgs.src = "app"
    /\ allArgs.schemaFile = Abs("app/schema.graphql")
    /\ prompted = [n \in ArgumentNameSet |-> 0]

\* --------------------------------------------------------------- C23
\* The directory d levels below the root lists the file.
HasFile(d) ==
    /\ d \in DOMAIN fsys
    /\ fsys[d].readable
    /\ PACKAGE_FILE \in fsys[d].names

\* The directories on the chain from the starting directory up to the
\* filesystem root, by their distance from the root.
Chain == 0..Resolve(startDirectory, cwd)

\* C23: traverseUpToFindFile terminates: it looks into every directory
\* of the chain from the starting directory up to the root at most once
\* and not beyond the root, and what it returns is the file in the
\* nearest directory of the chain that lists it, or null when no
\* directory of the chain does.
C23_TerminatesAtRoot ==
    (fpc # "idle" /\ startDirectory.kind # "empty")
        => /\ Len(looked) <= Cardinality(Chain)
           /\ \A i \in 1..Len(looked) :
                 looked[i] = Resolve(startDirectory, cwd) - (i - 1)
           /\ fpc = "returned"
                  => IF \E d \in Chain : HasFile(d)
                     THEN /\ filepath.found
                          /\ HasFile(Resolve(filepath.dir, cwd))
                          /\ \A d \in Chain :
                                HasFile(d) => d <= Resolve(filepath.dir, cwd)
                     ELSE ~filepath.found

====
